---- MODULE Spec2Model ----
(***************************************************************************)
(* Verification model of the hiring-signal lead-discovery pipelines.       *)
(*                                                                         *)
(* Spec      : the job-discovery pipeline (JobDiscoveryOrchestrator) with  *)
(*             its Store, ATS detection cache and ChangeDetector.          *)
(* SpecFault : the same pipeline when a Store call of apply_changes may    *)
(*             raise an sqlite3 error (I/O error, full disk).              *)
(* SpecList  : the list-discovery pipeline (ListDiscoveryOrchestrator)     *)
(*             with its own database file and the reset command; its       *)
(*             observed company is the one with domain Observed.           *)
(*                                                                         *)
(* The Store is the pair (conn, disk): disk is the committed content of    *)
(* the database file, conn is what the open connection sees (committed     *)
(* content plus the statements of the open transaction).  conn.commit()    *)
(* copies conn to disk; close() drops the open transaction.                *)
(*                                                                         *)
(* The tables hold the rows of one company, the company under observation, *)
(* which sits at position `focus` of the company list.  Every statement of *)
(* the pipeline is keyed by company id, job id or domain, so the rows of   *)
(* the other companies are disjoint from these and are not represented;    *)
(* what the other companies contribute to the shared connection is their   *)
(* commits, and to the run loop their results.                             *)
(*                                                                         *)
(* Time is kept relative.  A stamp written by the run in progress (or the  *)
(* last run) is Cur, a stamp of any earlier run is Old; StartRun shifts    *)
(* Cur to Old.  This covers last_seen_at and the run_id of a               *)
(* ChangeDetector (a fresh uuid per company and run).  run_snapshots keeps *)
(* the rows of the current run.  A cache entry carries its age in days     *)
(* (now - detected_at), saturating one day past the TTL.                   *)
(***************************************************************************)
EXTENDS Integers, Sequences, FiniteSets, TLC

\* ---------------------------------------------------------------- bounds
NumCompanies == 2
NumExtIds == 1
MaxFetch == 1
MaxFaults == 1
max_jobs == 1
MaxListings == 2
MaxOtherJobs == 2
MaxBoards == 2
MaxJobRows == 2
MaxSinglePostings == 2
MaxPages == 2
MaxInputs == 2
MaxSearches == 2
MaxMetros == 2
MaxRepeats == 1
MaxRuns == 2
NumMetros == 5

\* ------------------------------------------------------ program constants
ats_cache_ttl_days == 7
relevance_threshold == 60
limit == 50
gemini_batch_size == 5
apollo_batch_size == 10

None == "none"
Cur == 1
Old == 0

VARIABLES
  disk,                 \* committed content of the database file
  conn,                 \* content seen through the open connection
  pc,                   \* "idle" | "running"
  focus,                \* position of the observed company in the company list
  dry_run,              \* --dry-run flag of the current run
  idx,                  \* position of the run loop in the company list
  total_jobs_processed, \* run(): cumulative jobs_found of successful results
  results,              \* run(): the per-company result dicts
  sleeps,               \* run(): calls of asyncio.sleep(delay_between_companies)
  faults,               \* number of Store faults the environment may still inject
  last,                 \* what the processing of the observed company in this run saw
  prev,                 \* the same for the run before
  lastDet,              \* the latest detection that probed the network
  ldb,                  \* list-discovery pipeline: content of list_discovery.db
  lrun,                 \* list-discovery pipeline: the state of run()
  call,                 \* a component exercised on its own: its inputs and result
  enr                   \* enrichment stages: the decision_makers table and run() state

vars == <<disk, conn, pc, focus, dry_run, idx, total_jobs_processed,
          results, sleeps, faults, last, prev, lastDet, ldb, lrun, call, enr>>
jobVars == <<disk, conn, pc, focus, dry_run, idx, total_jobs_processed,
             results, sleeps, faults, last, prev, lastDet>>
listVars == <<ldb, lrun>>
unitVars == <<call, enr>>

\* ------------------------------------------------------------ relevance
\* A title is abstracted by what the scorers read from it: whether it holds
\* an exclusion keyword, whether it holds a marketing signal, and the best
\* fuzz.token_set_ratio over the marketing keywords; a description by the
\* number of marketing terms it holds.
MarketingManager == [exclusion |-> FALSE, signal |-> TRUE, ratio |-> 100]
EngineeringManagerMarketing == [exclusion |-> TRUE, signal |-> TRUE, ratio |-> 100]
OfficeAssistant == [exclusion |-> FALSE, signal |-> FALSE, ratio |-> 52]

Min(a, b) == IF a < b THEN a ELSE b

\* marketing_terms of RoleRelevanceScorer.score
MarketingTerms ==
  {"marketing", "campaign", "brand", "content", "seo", "growth", "acquisition",
   "funnel", "conversion", "analytics", "strategy"}

RelevanceResult(s, category, keywords, relevant) ==
  [score |-> s, matched_category |-> category, matched_keywords |-> keywords,
   is_relevant |-> relevant]

\* RoleRelevanceScorer.score (job-discovery variant)
score(title, descHits, threshold) ==
  IF title.exclusion
    THEN RelevanceResult(0, "excluded", <<>>, FALSE)
  ELSE IF title.ratio < 50
    THEN RelevanceResult(0, "none", <<>>, FALSE)
  ELSE LET final_score == Min(title.ratio + Min(descHits * 3, 15), 100)
       IN RelevanceResult(final_score, "marketing", <<"keyword">>,
                          final_score >= threshold)

list_score_signal_first(title, descHits, threshold) ==
  IF ~title.signal
    THEN RelevanceResult(0, "no_marketing_signal", <<>>, FALSE)
  ELSE LET final_score == Min(80 + Min(descHits * 4, 20), 100)
       IN RelevanceResult(final_score, "marketing", <<"signal">>,
                          final_score >= threshold)

list_score_above_threshold(title, descHits, threshold) ==
  IF title.exclusion
    THEN RelevanceResult(0, "excluded", <<>>, FALSE)
  ELSE IF ~title.signal
    THEN RelevanceResult(0, "no_marketing_signal", <<>>, FALSE)
  ELSE LET final_score == Min(80 + Min(descHits * 4, 20), 100)
       IN RelevanceResult(final_score, "marketing", <<"signal">>,
                          final_score > threshold)

\* RoleRelevanceScorer.score (list-discovery variant): a title with a
\* marketing signal scores 80 plus the description boost
list_score(title, descHits, threshold) ==
  IF title.exclusion
    THEN RelevanceResult(0, "excluded", <<>>, FALSE)
  ELSE IF ~title.signal
    THEN RelevanceResult(0, "no_marketing_signal", <<>>, FALSE)
  ELSE LET final_score == Min(80 + Min(descHits * 4, 20), 100)
       IN RelevanceResult(final_score, "marketing", <<"signal">>,
                          final_score >= threshold)

\* ------------------------------------------------------------ environment
\* Postings an ATS board can return: external ids 1..NumExtIds carry a
\* marketing title, external id 0 a title the scorer rejects (excluded, or
\* a weak match below the threshold).
PostingPool ==
  {[external_id |-> e, title |-> MarketingManager, descHits |-> 0] : e \in 1..NumExtIds}
    \cup {[external_id |-> 0, title |-> t, descHits |-> 0]
             : t \in {EngineeringManagerMarketing, OfficeAssistant}}

SeqsUpTo(S, n) == UNION {[1..k -> S] : k \in 0..n}

\* fetch_jobs either raises or returns a list of postings
FetchOutcomes ==
  {[ok |-> FALSE, jobs |-> <<>>]}
    \cup {[ok |-> TRUE, jobs |-> q] : q \in SeqsUpTo(PostingPool, MaxFetch)}

\* days that pass between two invocations: back-to-back, exactly the cache
\* TTL, one day more
ClockSteps == {0, ats_cache_ttl_days, ats_cache_ttl_days + 1}

\* EnhancedATSDetector.detect returns one of its result shapes
DetectOutcomes ==
  { [provider |-> "greenhouse", board_token |-> "tok", confidence |-> 95,
     detection_method |-> "api_probe"],
    [provider |-> "linkedin_only", board_token |-> None, confidence |-> 30,
     detection_method |-> "default_fallback"] }

\* JobDiscoveryOrchestrator.ATS_CLIENTS
ATS_CLIENTS == {"greenhouse", "lever", "ashby", "workable", "jobvite",
                "smartrecruiters", "recruitee", "breezyhr", "personio"}

\* -------------------------------------------------------------- the Store
NoCompany == [id |-> 0, ats_provider |-> None, ats_board_token |-> None]
NoEntry == [provider |-> None, board_token |-> None, age |-> 0]

\* Database.SCHEMA after _init_schema on a fresh file
EmptyDb ==
  [ company       |-> NoCompany,
    jobs          |-> {},
    job_seq       |-> 0,
    job_changes   |-> <<>>,
    run_snapshots |-> <<>>,
    ats_cache     |-> NoEntry ]

\* A store state is the pair of the connection's view and the file.
Commit(s) == [conn |-> s.conn, disk |-> s.conn]
Rollback(s) == [conn |-> s.disk, disk |-> s.disk]
OnConn(s, db) == [conn |-> db, disk |-> s.disk]

\* Database.upsert_company (job-discovery variant): the store after the
\* insert-or-update and its commit
upsert_company(s) ==
  IF s.conn.company.id # 0
    THEN Commit(s)
    ELSE Commit(OnConn(s, [s.conn EXCEPT !.company = [NoCompany EXCEPT !.id = 1]]))

\* Database.update_company_ats
update_company_ats(s, provider, token) ==
  Commit(OnConn(s, [s.conn EXCEPT !.company.ats_provider = provider,
                                  !.company.ats_board_token = token]))

cache_get_expired_at_ttl(s) ==
  LET e == s.conn.ats_cache IN
  IF e.provider = None
    THEN [hit |-> FALSE, entry |-> NoEntry, s |-> s]
  ELSE IF e.age >= ats_cache_ttl_days
    THEN [hit |-> FALSE, entry |-> NoEntry,
          s |-> Commit(OnConn(s, [s.conn EXCEPT !.ats_cache = NoEntry]))]
  ELSE [hit |-> TRUE, entry |-> e, s |-> s]

cache_get_keeps_expired(s) ==
  LET e == s.conn.ats_cache IN
  IF e.provider = None
    THEN [hit |-> FALSE, entry |-> NoEntry, s |-> s]
    ELSE [hit |-> TRUE, entry |-> e, s |-> s]

\* ATSDetectionCache.get: datetime.now() > expires_at, with
\* expires_at = detected_at + ttl_days, reads age > ttl_days; an expired row
\* is deleted
cache_get(s) ==
  LET e == s.conn.ats_cache IN
  IF e.provider = None
    THEN [hit |-> FALSE, entry |-> NoEntry, s |-> s]
  ELSE IF e.age > ats_cache_ttl_days
    THEN [hit |-> FALSE, entry |-> NoEntry,
          s |-> Commit(OnConn(s, [s.conn EXCEPT !.ats_cache = NoEntry]))]
  ELSE [hit |-> TRUE, entry |-> e, s |-> s]

\* ATSDetectionCache.set
cache_set(s, provider, token) ==
  Commit(OnConn(s, [s.conn EXCEPT !.ats_cache =
     [provider |-> provider, board_token |-> token, age |-> 0]]))

\* JobDiscoveryOrchestrator._detect_ats_for_company: det is what the
\* detector returns when it is asked; http counts whether it was asked
detect_ats_for_company(s, det) ==
  LET c == cache_get(s) IN
  IF c.hit
    THEN [result |-> [provider |-> c.entry.provider,
                      board_token |-> c.entry.board_token,
                      confidence |-> 100, detection_method |-> "cache"],
          http |-> 0, s |-> c.s]
    ELSE [result |-> det, http |-> 1,
          s |-> IF det.provider # None /\ det.provider # "unknown"
                  THEN cache_set(c.s, det.provider, det.board_token)
                  ELSE c.s]

\* -------------------------------------------------------- ChangeDetector
ActiveRows(db, cid) == {j \in db.jobs : j.company_id = cid /\ j.is_active = 1}
RowsOf(db, cid) == {j \in db.jobs : j.company_id = cid}
ExtIdsOf(jobs) == {jobs[i].external_id : i \in 1..Len(jobs)}

\* every order in which a Python set can be iterated
Orderings(S) ==
  {f \in [1..Cardinality(S) -> S] : \A i, j \in 1..Cardinality(S) : i # j => f[i] # f[j]}

\* ChangeDetector.detect_changes: order is the iteration order of removed_ids
detect_changes(db, cid, run_id, fetched_jobs, order) ==
  LET db_jobs     == ActiveRows(db, cid)
      db_ids      == {j.external_id : j \in db_jobs}
      fetched_ids == ExtIdsOf(fetched_jobs)
      new_ids     == fetched_ids \ db_ids
      IsNew(job)  == job.external_id \in new_ids
      RowFor(e)   == CHOOSE j \in db_jobs : j.external_id = e
  IN [ run_id       |-> run_id,
       company_id   |-> cid,
       new_jobs     |-> [i \in 1..Len(SelectSeq(fetched_jobs, IsNew)) |->
                           SelectSeq(fetched_jobs, IsNew)[i].external_id],
       removed_jobs |-> [i \in 1..Len(order) |->
                           [job_id |-> RowFor(order[i]).id, external_id |-> order[i]]],
       total_active |-> Cardinality(fetched_ids) ]

RemovedIds(db, cid, fetched_jobs) ==
  {j.external_id : j \in ActiveRows(db, cid)} \ ExtIdsOf(fetched_jobs)

\* The statements apply_changes executes, in order.
RECURSIVE NewStmts(_, _)
NewStmts(new_jobs, k) ==
  IF k > Len(new_jobs) THEN <<>>
  ELSE << [op |-> "insert_job", arg |-> new_jobs[k]],
          [op |-> "insert_change_new", arg |-> 0] >> \o NewStmts(new_jobs, k + 1)

RECURSIVE RemovedStmts(_, _)
RemovedStmts(removed_jobs, k) ==
  IF k > Len(removed_jobs) THEN <<>>
  ELSE << [op |-> "mark_inactive", arg |-> removed_jobs[k].job_id],
          [op |-> "insert_change_removed", arg |-> removed_jobs[k].job_id] >>
         \o RemovedStmts(removed_jobs, k + 1)

apply_statements(report, fetched_jobs) ==
  LET new_ext_ids == {report.new_jobs[i] : i \in 1..Len(report.new_jobs)}
      active_external_ids == ExtIdsOf(fetched_jobs) \ new_ext_ids
  IN NewStmts(report.new_jobs, 1)
       \o RemovedStmts(report.removed_jobs, 1)
       \o (IF active_external_ids # {}
             THEN << [op |-> "update_last_seen", arg |-> active_external_ids] >>
             ELSE <<>>)
       \o << [op |-> "insert_run_snapshot", arg |-> 0] >>

\* INSERT INTO jobs (...) VALUES (..., 1, ...): the UNIQUE(company_id,
\* external_id) constraint makes the statement raise IntegrityError
insert_job_row(st, report, e, t) ==
  IF \E j \in st.db.jobs : j.company_id = report.company_id /\ j.external_id = e
    THEN [st EXCEPT !.raised = "IntegrityError"]
    ELSE [st EXCEPT
            !.db.jobs = @ \cup {[id |-> st.db.job_seq + 1,
                                 company_id |-> report.company_id,
                                 external_id |-> e, is_active |-> 1,
                                 last_seen_at |-> t]},
            !.db.job_seq = @ + 1,
            !.lastrowid = st.db.job_seq + 1]

insert_job_change(st, job_id, run_id, change_type) ==
  [st EXCEPT !.db.job_changes =
     Append(@, [job_id |-> job_id, run_id |-> run_id, change_type |-> change_type])]

mark_inactive_stamp_only(st, job_id, t) ==
  [st EXCEPT !.db.jobs =
     {IF j.id = job_id THEN [j EXCEPT !.last_seen_at = t] ELSE j : j \in @}]

\* UPDATE jobs SET is_active = 0, last_seen_at = ? WHERE id = ?
mark_inactive(st, job_id, t) ==
  [st EXCEPT !.db.jobs =
     {IF j.id = job_id THEN [j EXCEPT !.is_active = 0, !.last_seen_at = t] ELSE j
        : j \in @}]

\* UPDATE jobs SET last_seen_at = ? WHERE company_id = ? AND external_id IN (...)
update_last_seen(st, cid, ext_ids, t) ==
  [st EXCEPT !.db.jobs =
     {IF j.company_id = cid /\ j.external_id \in ext_ids
        THEN [j EXCEPT !.last_seen_at = t] ELSE j : j \in @}]

insert_run_snapshot(st, report) ==
  [st EXCEPT !.db.run_snapshots =
     Append(@, [run_id |-> report.run_id, company_id |-> report.company_id,
                jobs_found |-> report.total_active,
                new_jobs |-> Len(report.new_jobs),
                removed_jobs |-> Len(report.removed_jobs),
                status |-> "success"])]

exec_statement(st, stmt, report, t) ==
  CASE stmt.op = "insert_job" -> insert_job_row(st, report, stmt.arg, t)
    [] stmt.op = "insert_change_new" ->
         insert_job_change(st, st.lastrowid, report.run_id, "new")
    [] stmt.op = "mark_inactive" -> mark_inactive(st, stmt.arg, t)
    [] stmt.op = "insert_change_removed" ->
         insert_job_change(st, stmt.arg, report.run_id, "removed")
    [] stmt.op = "update_last_seen" ->
         update_last_seen(st, report.company_id, stmt.arg, t)
    [] stmt.op = "insert_run_snapshot" -> insert_run_snapshot(st, report)

\* fault = k > 0: the k-th Store call of apply_changes raises an sqlite3 error
RECURSIVE run_statements(_, _, _, _, _, _)
run_statements(st, stmts, k, fault, report, t) ==
  IF k > Len(stmts) THEN st
  ELSE IF k = fault THEN [st EXCEPT !.raised = "OperationalError"]
  ELSE LET st2 == exec_statement(st, stmts[k], report, t) IN
       IF st2.raised # None THEN st2
       ELSE run_statements(st2, stmts, k + 1, fault, report, t)

\* ChangeDetector.apply_changes: nothing is rolled back when a statement
\* raises; the connection keeps the open transaction
apply_changes(s, report, fetched_jobs, fault, t) ==
  LET stmts == apply_statements(report, fetched_jobs)
      st    == run_statements([db |-> s.conn, lastrowid |-> 0, raised |-> None],
                              stmts, 1, fault, report, t)
  IN IF st.raised # None
       THEN [s |-> OnConn(s, st.db), raised |-> st.raised]
     ELSE IF fault = Len(stmts) + 1
       THEN [s |-> OnConn(s, st.db), raised |-> "OperationalError"]
     ELSE [s |-> Commit(OnConn(s, st.db)), raised |-> None]

\* ------------------------------------------------- JobDiscoveryOrchestrator
Result(status, found, new, removed) ==
  [status |-> status, jobs_found |-> found, new_jobs |-> new, removed_jobs |-> removed]

NoDet == [provider |-> None, board_token |-> None, confidence |-> 0,
          detection_method |-> None]

Outcome(s, raised, result, det, http, fetched, applied) ==
  [s |-> s, raised |-> raised, result |-> result, det |-> det, http |-> http,
   fetched |-> fetched, applied |-> applied]

IsRelevant(job) == score(job.title, job.descHits, relevance_threshold).is_relevant

\* steps 6-8 of _process_company, after a successful fetch
score_and_apply(s1, dr, jobs, order, fault, dry) ==
  LET relevant_jobs == SelectSeq(jobs, IsRelevant)
      report == detect_changes(s1.conn, s1.conn.company.id, Cur, relevant_jobs, order)
      ok     == Result("success", Len(relevant_jobs), Len(report.new_jobs),
                       Len(report.removed_jobs))
  IN IF dry
       THEN Outcome(s1, None, ok, dr.result, dr.http, relevant_jobs, "skipped")
     ELSE
       LET ap == apply_changes(s1, report, relevant_jobs, fault, Cur) IN
       IF ap.raised # None
         THEN Outcome(ap.s, ap.raised, ok, dr.result, dr.http, relevant_jobs, ap.raised)
       ELSE
         \* self.db.update_company_urgency: the Database class of this
         \* package defines no such method, the call raises AttributeError
         Outcome(update_company_ats(ap.s, dr.result.provider, dr.result.board_token),
                 "AttributeError", ok, dr.result, dr.http, relevant_jobs, "ok")

fetch_never_raised(fetch) == FALSE

\* step 5 of _process_company: the except Exception around
\* ats_client.fetch_jobs(), taken when the call raised
fetch_raised(fetch) == ~fetch.ok

robots_never_blocks(robots_ok) == FALSE

\* step 2 of _process_company: robots_ok is what RobotsChecker.can_fetch
\* returned for https://<domain>/careers; the company is blocked when it is
\* False
blocked_by_robots(robots_ok) == ~robots_ok

\* JobDiscoveryOrchestrator._process_company
process_company(s, robots_ok, det, fetch, order, fault, dry) ==
  LET s0 == upsert_company(s) IN
  IF blocked_by_robots(robots_ok)
    THEN Outcome(s0, None, Result("blocked_robots", 0, 0, 0), NoDet, 0, <<>>, "none")
  ELSE
    LET dr == detect_ats_for_company(s0, det) IN
    IF dr.result.provider = "linkedin_only"
      THEN Outcome(IF dry THEN dr.s
                   ELSE update_company_ats(dr.s, "linkedin_only", dr.result.board_token),
                   None, Result("linkedin_only", 0, 0, 0), dr.result, dr.http,
                   <<>>, "none")
    ELSE IF dr.result.provider = None \/ dr.result.provider = "unknown"
      THEN Outcome(dr.s, None, Result("unknown_ats", 0, 0, 0), dr.result,
                   dr.http, <<>>, "none")
    ELSE IF dr.result.provider \notin ATS_CLIENTS
      THEN Outcome(dr.s, None, Result("unsupported_ats", 0, 0, 0), dr.result,
                   dr.http, <<>>, "none")
    ELSE IF fetch_raised(fetch)
      THEN Outcome(dr.s, None, Result("fetch_error", 0, 0, 0), dr.result,
                   dr.http, <<>>, "none")
    ELSE score_and_apply(dr.s, dr, fetch.jobs, order, fault, dry)

\* the stamps of an earlier run: Cur becomes Old, the snapshot rows of the
\* earlier run leave the window, the cache entry grows older by delta days
Age(db, delta) ==
  [db EXCEPT
     !.jobs = {[j EXCEPT !.last_seen_at = Old] : j \in @},
     !.job_changes = [i \in 1..Len(@) |-> [@[i] EXCEPT !.run_id = Old]],
     !.run_snapshots = <<>>,
     !.ats_cache = IF @.provider = None THEN @
                   ELSE [@ EXCEPT !.age = Min(@ + delta, ats_cache_ttl_days + 1)]]

NoLastDet == [provider |-> None, board_token |-> None, age |-> 0]
NoLast == [processed |-> FALSE, dry |-> FALSE, robots |-> FALSE,
           jobs |-> <<>>, fetch_ok |-> FALSE,
           A |-> {}, Inactive |-> {},
           applied |-> "none", det |-> NoDet, http |-> 0,
           prevDet |-> NoLastDet, same |-> FALSE]

\* what a run remembers of the run before it
NoPrev == [applied |-> FALSE, jobs |-> <<>>]

\* ------------------------------------------------ list-discovery Store
\* As for the job-discovery Store, the tables of list_discovery.db hold the
\* rows of one company, the one with domain Observed; job ids count the
\* inserts of that company.  Every write commits, so there is one copy.
Domains == 1..NumCompanies
Observed == 1
JobUrls == 1..NumExtIds

\* hashlib.md5(job_url).hexdigest()[:16]: a digest of the url; the digests
\* of the urls modelled here are distinct
md5_16(job_url) == <<"md5", job_url>>

NoListCompany == [id |-> 0, urgency_score |-> 0, current_run_id |-> Old]
NoDecisionMaker == [person_name |-> FALSE, email |-> FALSE]

\* Database.SCHEMA (list-discovery variant) on a fresh file
EmptyListDb ==
  [ company        |-> NoListCompany,
    jobs           |-> {},
    job_seq        |-> 0,
    seen_companies |-> {},
    decision_maker |-> NoDecisionMaker ]

\* Database.upsert_company (list-discovery variant)
list_upsert_company(db) ==
  IF db.company.id # 0
    THEN [db EXCEPT !.company.current_run_id = Cur]
    ELSE [db EXCEPT !.company = [id |-> 1, urgency_score |-> 0,
                                 current_run_id |-> Cur]]

\* Database.update_company_urgency
update_company_urgency(db, urgency_score) ==
  [db EXCEPT !.company.urgency_score = urgency_score]

\* Database.insert_job: INSERT OR REPLACE removes the row that holds the same
\* (company_id, external_id) and inserts a row with the next AUTOINCREMENT id
insert_job(db, external_id, company_id) ==
  [db EXCEPT
     !.jobs = {j \in @ : ~(j.company_id = company_id /\ j.external_id = external_id)}
                \cup {[id |-> db.job_seq + 1, company_id |-> company_id,
                       external_id |-> external_id, is_active |-> 1]},
     !.job_seq = @ + 1]

\* Database.upsert_decision_maker: ON CONFLICT(company_id) overwrites every
\* column with the values passed
upsert_decision_maker(db, email) ==
  [db EXCEPT !.decision_maker = [person_name |-> TRUE, email |-> email]]

is_company_seen_never(db, d) == FALSE

\* Database.is_company_seen
is_company_seen(db, d) == d \in db.seen_companies

\* Database.mark_company_seen
mark_company_seen(db, d) == [db EXCEPT !.seen_companies = @ \cup {d}]

\* Database.reset_seen_companies
reset_seen_companies(db) == [db EXCEPT !.seen_companies = {}]

\* ------------------------------------------- ListDiscoveryOrchestrator
\* the rows the GitHub README can hold: any job url for the observed
\* company, one job url for each other company
ListingPool ==
  {[domain |-> Observed, job_url |-> u] : u \in JobUrls}
    \cup {[domain |-> d, job_url |-> 1] : d \in Domains \ {Observed}}

\* the grouping loop of _load_companies_from_github: a dict keyed by domain
\* in order of first appearance
RECURSIVE group_by_domain(_, _, _)
group_by_domain(listings, k, acc) ==
  IF k > Len(listings) THEN acc
  ELSE LET l == listings[k] IN
       group_by_domain(listings, k + 1,
         IF \E i \in 1..Len(acc) : acc[i].domain = l.domain
           THEN [i \in 1..Len(acc) |->
                   IF acc[i].domain = l.domain
                     THEN [acc[i] EXCEPT !.jobs = Append(@, l.job_url)]
                     ELSE acc[i]]
           ELSE Append(acc, [domain |-> l.domain, jobs |-> <<l.job_url>>]))

\* ListDiscoveryOrchestrator._load_companies_from_github; the seen rows of
\* the other companies are those of seen_others
load_companies_from_github(db, listings, seen_others) ==
  LET Unseen(g) == ~is_company_seen(
                      [db EXCEPT !.seen_companies = @ \cup seen_others], g.domain)
  IN SelectSeq(group_by_domain(listings, 1, <<>>), Unseen)

RECURSIVE insert_jobs(_, _, _, _)
insert_jobs(db, jobs, company_id, k) ==
  IF k > Len(jobs) THEN db
  ELSE insert_jobs(insert_job(db, md5_16(jobs[k]), company_id), jobs, company_id, k + 1)

ListResult(d, stored_count) ==
  [domain |-> d, status |-> "success", jobs_found |-> stored_count,
   new_jobs |-> stored_count, removed_jobs |-> 0,
   decision_maker |-> NoDecisionMaker]

\* ListDiscoveryOrchestrator._store_company_and_jobs for the observed company
store_company_and_jobs(db, jobs, dry) ==
  LET db1 == list_upsert_company(db)
      company_id == db1.company.id
      stored_count == Len(jobs)
  IN [db |-> IF dry THEN db1
             ELSE update_company_urgency(insert_jobs(db1, jobs, company_id, 1),
                                         stored_count),
      result |-> ListResult(Observed, stored_count)]

NoListRun == [pc |-> "idle", dry |-> FALSE, queue |-> <<>>, results |-> <<>>,
              candidates |-> {}, db0 |-> EmptyListDb, net |-> {}]

\* lrun.db0 is the database as the run loaded its candidates, kept when the
\* observed company had a seen_companies row then; lrun.candidates are the
\* domains of the fetched listings, lrun.net the domains a lookup request was
\* made for.
\* a run begins: current_run_id values of earlier runs become Old
AgeList(db) == [db EXCEPT !.company.current_run_id = Old]

\* cli.cmd_run and the head of run(): fetch the README listings, group them,
\* drop the seen companies; with nothing left run() returns its summary
ListStartRun ==
  /\ lrun.pc = "idle"
  /\ \E dry \in BOOLEAN, listings \in SeqsUpTo(ListingPool, MaxListings),
        seen_others \in SUBSET (Domains \ {Observed}) :
       LET db == AgeList(ldb)
           companies_with_jobs == load_companies_from_github(db, listings, seen_others)
       IN /\ seen_others \subseteq {listings[i].domain : i \in 1..Len(listings)}
          /\ ldb' = db
          /\ lrun' = [pc |-> IF companies_with_jobs = <<>> THEN "done" ELSE "loop",
                      dry |-> dry, queue |-> companies_with_jobs, results |-> <<>>,
                      candidates |-> {listings[i].domain : i \in 1..Len(listings)},
                      db0 |-> IF Observed \in db.seen_companies THEN db
                              ELSE EmptyListDb,
                      net |-> {}]
  /\ UNCHANGED <<jobVars, unitVars>>

\* one iteration of the loop of run(): _store_company_and_jobs and
\* mark_company_seen; the rows of another company are not represented
ListStoreCompany ==
  /\ lrun.pc = "loop"
  /\ lrun.queue # <<>>
  /\ LET c == Head(lrun.queue)
         out == IF c.domain = Observed
                  THEN store_company_and_jobs(ldb, c.jobs, lrun.dry)
                  ELSE [db |-> ldb, result |-> ListResult(c.domain, Len(c.jobs))]
     IN /\ (c.domain = Observed /\ ~lrun.dry)
             => ldb.job_seq + Len(c.jobs) <= MaxJobRows
        /\ ldb' = IF c.domain = Observed /\ ~lrun.dry
                    THEN mark_company_seen(out.db, c.domain) ELSE out.db
        /\ lrun' = [lrun EXCEPT !.queue = Tail(@),
                                !.results = Append(@, out.result),
                                !.pc = IF Len(lrun.queue) = 1 THEN "enrich" ELSE "loop"]
  /\ UNCHANGED <<jobVars, unitVars>>

\* the decision-maker and email stages of run(), then the summary.
\* dm_on / email_on: the stage is enabled and its API key is set; in_top: the
\* companies get_companies_sorted_by_recency(limit=10) returns; known: the
\* other companies that have a decision maker stored; Found / Mailed: the
\* results for which the lookup returns a person / an email
ListEnrich ==
  /\ lrun.pc = "enrich"
  /\ LET R == lrun.results
         Top == {i \in 1..Len(R) :
                   /\ R[i].status = "success"
                   /\ R[i].jobs_found > 0
                   /\ (R[i].domain = Observed =>
                         \E j \in ldb.jobs : /\ j.company_id = ldb.company.id
                                             /\ j.is_active = 1)}
         Others == {i \in 1..Len(R) : R[i].domain # Observed}
     IN \E dm_on \in BOOLEAN, email_on \in BOOLEAN :
        \E in_top \in (IF dm_on THEN SUBSET Top ELSE {{}}) :
        \E known \in SUBSET (in_top \cap Others) :
          LET Existing(i) == IF R[i].domain = Observed
                               THEN ldb.decision_maker
                             ELSE IF i \in known
                               THEN [person_name |-> TRUE, email |-> FALSE]
                             ELSE NoDecisionMaker
              Needing == {i \in in_top : ~Existing(i).person_name}
              Kept == {i \in in_top : Existing(i).person_name}
          IN \E Found \in SUBSET Needing :
               LET R1 == [i \in 1..Len(R) |->
                            IF i \in Kept
                              THEN [R[i] EXCEPT !.decision_maker = Existing(i)]
                            ELSE IF i \in Found
                              THEN [R[i] EXCEPT !.decision_maker =
                                                  [person_name |-> TRUE, email |-> FALSE]]
                            ELSE R[i]]
                   db1 == IF ~lrun.dry /\ \E i \in Found : R[i].domain = Observed
                            THEN upsert_decision_maker(ldb, FALSE) ELSE ldb
                   ForEmail == {i \in 1..Len(R) :
                                  /\ email_on
                                  /\ R1[i].decision_maker.person_name
                                  /\ ~R1[i].decision_maker.email}
               IN \E Mailed \in SUBSET ForEmail :
                    LET R2 == [i \in 1..Len(R) |->
                                 IF i \in Mailed
                                   THEN [R1[i] EXCEPT !.decision_maker.email = TRUE]
                                 ELSE R1[i]]
                        db2 == IF ~lrun.dry /\ \E i \in Mailed : R[i].domain = Observed
                                 THEN upsert_decision_maker(db1, TRUE) ELSE db1
                    IN /\ ldb' = db2
                       /\ lrun' = [lrun EXCEPT !.pc = "done", !.results = R2,
                                     !.net = {R[i].domain : i \in Needing \cup ForEmail}]
  /\ UNCHANGED <<jobVars, unitVars>>

\* run() returned its summary; cmd_run closes the database and the process
\* ends
ListFinishRun ==
  /\ lrun.pc = "done"
  /\ lrun' = NoListRun
  /\ UNCHANGED <<ldb, jobVars, unitVars>>

\* cli.cmd_reset, confirmed or forced
ListReset ==
  /\ lrun.pc = "idle"
  /\ ldb.seen_companies # {}
  /\ ldb' = reset_seen_companies(ldb)
  /\ UNCHANGED <<lrun, jobVars, unitVars>>

NextList ==
  ListStartRun \/ ListStoreCompany \/ ListEnrich \/ ListFinishRun \/ ListReset

NoCall == [pc |-> "none"]
NoEnr == [pc |-> "none"]

Init ==
  /\ disk = EmptyDb
  /\ conn = EmptyDb
  /\ pc = "idle"
  /\ focus \in 1..NumCompanies
  /\ dry_run = FALSE
  /\ idx = 1
  /\ total_jobs_processed = 0
  /\ results = <<>>
  /\ sleeps = 0
  /\ faults = 0
  /\ last = NoLast
  /\ prev = NoPrev
  /\ lastDet = NoLastDet
  /\ ldb = EmptyListDb
  /\ lrun = NoListRun
  /\ call = NoCall
  /\ enr = NoEnr

InitFault ==
  /\ disk = EmptyDb
  /\ conn = EmptyDb
  /\ pc = "idle"
  /\ focus \in 1..NumCompanies
  /\ dry_run = FALSE
  /\ idx = 1
  /\ total_jobs_processed = 0
  /\ results = <<>>
  /\ sleeps = 0
  /\ faults = MaxFaults
  /\ last = NoLast
  /\ prev = NoPrev
  /\ lastDet = NoLastDet
  /\ ldb = EmptyListDb
  /\ lrun = NoListRun
  /\ call = NoCall
  /\ enr = NoEnr

\* cli.cmd_run: open the database, build the orchestrator, enter run();
\* delta days have passed since the invocation before
StartRun ==
  /\ pc = "idle"
  /\ \E dry \in BOOLEAN, delta \in ClockSteps :
       /\ dry_run' = dry
       /\ disk' = Age(disk, delta)
       /\ conn' = Age(disk, delta)
       /\ lastDet' = IF lastDet.provider = None THEN lastDet
                     ELSE [lastDet EXCEPT
                             !.age = Min(@ + delta, ats_cache_ttl_days + 1)]
  /\ pc' = "running"
  /\ idx' = 1
  /\ total_jobs_processed' = 0
  /\ results' = <<>>
  /\ sleeps' = 0
  /\ prev' = IF last.applied \in {"ok", "IntegrityError"}
                THEN [applied |-> TRUE, jobs |-> last.jobs]
                ELSE NoPrev
  /\ last' = NoLast
  /\ UNCHANGED <<focus, faults, listVars, unitVars>>

\* The environment answers the calls the iteration makes: the detector is
\* asked after robots.txt allows the site and the cache misses, fetch_jobs is
\* called for a provider with a client, a Store call of apply_changes can
\* fail when it is made.
AskedDetections(s, robots_ok) ==
  IF robots_ok /\ ~cache_get(upsert_company(s)).hit THEN DetectOutcomes ELSE {NoDet}

AskedFetches(s, robots_ok, det) ==
  IF robots_ok
       /\ detect_ats_for_company(upsert_company(s), det).result.provider \in ATS_CLIENTS
    THEN FetchOutcomes
    ELSE {[ok |-> FALSE, jobs |-> <<>>]}

\* the Store calls of apply_changes: its statements and the commit
StoreCalls(db, cid, relevant_jobs, order) ==
  Len(apply_statements(detect_changes(db, cid, Cur, relevant_jobs, order),
                       relevant_jobs)) + 1

run_loop_result_unguarded(raised, result) == result

\* the try / except Exception around _process_company in the loop of run():
\* the result dict, or an error entry for the company when the call raised
run_loop_result(raised, result) ==
  IF raised = None THEN result ELSE Result("error", 0, 0, 0)

\* await asyncio.sleep(self.config.delay_between_companies): the last
\* statement of the try block of the loop of run(), reached when
\* _process_company returned; the number of sleeps it adds
sleep_after(raised) == IF raised = None THEN 1 ELSE 0

max_jobs_ignored(total) == TRUE

\* the test at the head of the loop of run(): the loop breaks once
\* total_jobs_processed >= self.max_jobs
below_max_jobs(total) == total < max_jobs

\* what the request for robots.txt of a domain can bring: a 200 whose rules
\* disallow or allow the url for the user agent, another status, or an
\* httpx.HTTPError
RobotsFetches == {"disallow", "allow", "non200", "HTTPError"}

\* RobotsChecker._get_robots_parser on an empty cache: the parsed rules of a
\* 200 response, None (no restrictions) otherwise
get_robots_parser(robots_fetch) ==
  IF robots_fetch \in {"disallow", "allow"} THEN robots_fetch ELSE None

\* RobotsChecker.can_fetch: without a parser the url is assumed allowed
can_fetch(robots_fetch) ==
  LET parser == get_robots_parser(robots_fetch) IN
  IF parser = None THEN TRUE ELSE parser = "allow"

\* one iteration of the loop of JobDiscoveryOrchestrator.run, for the
\* observed company
ProcessCompany ==
  /\ pc = "running"
  /\ idx <= NumCompanies
  /\ idx = focus
  /\ below_max_jobs(total_jobs_processed)
  /\ LET s == [conn |-> conn, disk |-> disk]
         cidIn == upsert_company(s).conn.company.id
     IN
     \E robots_ok \in {can_fetch(f) : f \in RobotsFetches} :
     \E det \in AskedDetections(s, robots_ok) :
     \E fetch \in AskedFetches(s, robots_ok, det) :
       LET jobsIn == SelectSeq(fetch.jobs, IsRelevant) IN
       \E order \in (IF fetch.ok THEN Orderings(RemovedIds(conn, cidIn, jobsIn))
                     ELSE {<<>>}) :
       \E fault \in 0..(IF faults > 0 /\ fetch.ok /\ ~dry_run
                          THEN StoreCalls(conn, cidIn, jobsIn, order) ELSE 0) :
         LET out == process_company(s, robots_ok, det, fetch, order, fault, dry_run)
             obsSame == /\ prev.applied
                        /\ out.applied \in {"ok", "IntegrityError"}
                        /\ prev.jobs = jobsIn
         IN
         /\ fault # 0 => out.raised = "OperationalError"
         /\ faults' = IF fault # 0 THEN faults - 1 ELSE faults
         /\ conn' = out.s.conn
         /\ disk' = out.s.disk
         /\ results' = Append(results, run_loop_result(out.raised, out.result))
         /\ sleeps' = sleeps + sleep_after(out.raised)
         /\ total_jobs_processed' =
               IF out.raised = None /\ out.result.status = "success"
                 THEN total_jobs_processed + out.result.jobs_found
                 ELSE total_jobs_processed
         /\ last' = [processed |-> TRUE, dry |-> dry_run, robots |-> robots_ok,
                     jobs |-> jobsIn, fetch_ok |-> fetch.ok,
                     A |-> {j.external_id : j \in ActiveRows(conn, cidIn)},
                     Inactive |-> {j.external_id :
                                     j \in RowsOf(conn, cidIn) \ ActiveRows(conn, cidIn)},
                     applied |-> out.applied, det |-> out.det, http |-> out.http,
                     prevDet |-> lastDet, same |-> obsSame]
         /\ lastDet' = IF out.http > 0 /\ out.det.provider \notin {None, "unknown"}
                         THEN [provider |-> out.det.provider,
                               board_token |-> out.det.board_token, age |-> 0]
                         ELSE lastDet
  /\ idx' = idx + 1
  /\ prev' = NoPrev
  /\ UNCHANGED <<pc, focus, dry_run, listVars, unitVars>>

\* the results another company's _process_company can end with: a status
\* that is not success, an exception, or (on a dry run, which skips the
\* Store calls after detect_changes) success with jobs_found relevant jobs
OtherOutcomes(dry) ==
  {Result("blocked_robots", 0, 0, 0), Result("error", 0, 0, 0)}
    \cup (IF dry
            THEN {Result("success", n, 0, 0) : n \in 1..MaxOtherJobs}
            ELSE {})

\* one iteration of the loop for another company: its upsert_company commits
\* the connection's open transaction; its own rows are not represented
ProcessOtherCompany ==
  /\ pc = "running"
  /\ idx <= NumCompanies
  /\ idx # focus
  /\ below_max_jobs(total_jobs_processed)
  /\ \E r \in OtherOutcomes(dry_run) :
       /\ results' = Append(results, r)
       /\ sleeps' = sleeps + sleep_after(IF r.status = "error" THEN "Exception" ELSE None)
       /\ total_jobs_processed' =
            IF r.status = "success" THEN total_jobs_processed + r.jobs_found
            ELSE total_jobs_processed
  /\ conn' = conn
  /\ disk' = conn
  /\ idx' = idx + 1
  /\ UNCHANGED <<pc, focus, dry_run, faults, last, prev, lastDet, listVars, unitVars>>

\* the loop of run() ends (list exhausted or max_jobs reached), the summary
\* is produced and cmd_run closes the database: an open transaction is lost
FinishRun ==
  /\ pc = "running"
  /\ idx > NumCompanies \/ ~below_max_jobs(total_jobs_processed)
  /\ pc' = "idle"
  /\ conn' = Rollback([conn |-> conn, disk |-> disk]).conn
  /\ UNCHANGED <<disk, focus, dry_run, idx, total_jobs_processed, results, sleeps,
                 faults, last, prev, lastDet, listVars, unitVars>>

Next == StartRun \/ ProcessCompany \/ ProcessOtherCompany \/ FinishRun

Spec == Init /\ [][Next]_vars
SpecFault == InitFault /\ [][Next]_vars
SpecList == Init /\ [][NextList]_vars

\* ------------------------------------------------- EnhancedATSDetector
\* The specifications of single components start from the pipelines at rest.
PipelinesAtRest ==
  /\ disk = EmptyDb
  /\ conn = EmptyDb
  /\ pc = "idle"
  /\ focus = 1
  /\ dry_run = FALSE
  /\ idx = 1
  /\ total_jobs_processed = 0
  /\ results = <<>>
  /\ sleeps = 0
  /\ faults = 0
  /\ last = NoLast
  /\ prev = NoPrev
  /\ lastDet = NoLastDet
  /\ ldb = EmptyListDb
  /\ lrun = NoListRun

Range(q) == {q[i] : i \in 1..Len(q)}

\* EnhancedATSDetector.ATS_ENDPOINTS, in dict order
ATS_ENDPOINTS ==
  <<"greenhouse", "lever", "ashby", "workable", "jobvite", "smartrecruiters",
    "recruitee", "breezyhr", "personio">>

\* _get_priority_ats: the keys of ats_keywords, in dict order
ats_keywords ==
  <<"greenhouse", "lever", "ashby", "workable", "jobvite", "smartrecruiters",
    "recruitee", "breezyhr", "personio", "bamboohr", "teamtailor", "jazzhr">>

\* _get_priority_ats: default_order
default_order ==
  <<"greenhouse", "lever", "ashby", "workable", "smartrecruiters", "recruitee",
    "breezyhr", "personio", "jobvite">>

\* The technologies field is abstracted by what _get_priority_ats reads from
\* it: the ATS of which a keyword occurs in the lowercased field.
TechnologiesPool ==
  { {}, {"lever"}, {"jobvite", "smartrecruiters"}, {"bamboohr", "personio"} }

get_priority_ats_endpoint_order(technologies) == ATS_ENDPOINTS

\* EnhancedATSDetector._get_priority_ats
get_priority_ats(technologies) ==
  LET Hinted(a) == a \in technologies
      priority == SelectSeq(ats_keywords, Hinted)
      Remaining(a) == a \notin Range(priority)
  IN priority \o SelectSeq(default_order, Remaining)

\* generate_token_variations returns list(valid_variations), a set turned
\* into a list: the variations come in any order
TokenPool == {"acme", "acmehq"}

\* what a request of the detector can meet: "jobs" is status 200 with a body
\* _validate_jobs_response accepts, "no_jobs" any other answer, "neterror" an
\* httpx.HTTPError (httpx.TimeoutException is one)
ProbeResponses == {"jobs", "no_jobs", "neterror"}

\* a page request: a network error, a page without an ATS fingerprint, a page
\* that embeds an ATS widget
PageResponses == {"neterror", "plain", "widget"}

NoResult(method) ==
  [provider |-> None, board_token |-> None, confidence |-> 0,
   detection_method |-> method]

\* EnhancedATSDetector._probe_ats_api: resp[k] is what the endpoint answers
\* to the k-th request of the loop over the tokens; errors is the number of
\* requests that raised
RECURSIVE probe_ats_api(_, _, _, _, _)
probe_ats_api(ats_name, tokens, resp, k, errors) ==
  IF k > Len(tokens)
    THEN [result |-> NoResult("api_probe"), errors |-> errors]
  ELSE IF resp[k] = "jobs"
    THEN [result |-> [provider |-> ats_name, board_token |-> tokens[k],
                      confidence |-> 95, detection_method |-> "api_probe"],
          errors |-> errors]
  ELSE probe_ats_api(ats_name, tokens, resp, k + 1,
                     IF resp[k] = "neterror" THEN errors + 1 ELSE errors)

extract_linkedin_slug_uncaught(resp) ==
  [raised |-> IF resp = "neterror" THEN "HTTPError" ELSE None,
   slug |-> IF resp = "widget" THEN "acme-inc" ELSE None]

\* EnhancedATSDetector._extract_linkedin_slug: one request for the homepage;
\* "widget" is a page that links the company's LinkedIn page.  The except
\* clause catches httpx.HTTPError and the function returns None
extract_linkedin_slug(resp) ==
  [raised |-> None, slug |-> IF resp = "widget" THEN "acme-inc" ELSE None]

\* EnhancedATSDetector._fingerprint_html on a page that embeds a widget
fingerprint_html(resp) ==
  IF resp = "widget"
    THEN [provider |-> "lever", board_token |-> "acme", confidence |-> 85,
          detection_method |-> "html_fingerprint"]
    ELSE NoResult("html_fingerprint")

HomepageUrls == <<"https://domain", "https://www.domain">>

\* EnhancedATSDetector._detect_from_homepage: check_homepage for both urls,
\* the first result with a provider
detect_from_homepage(home) ==
  LET Hit(u) == fingerprint_html(home[u]).provider # None
      hits == SelectSeq(HomepageUrls, Hit)
  IN IF hits # <<>> THEN fingerprint_html(home[Head(hits)])
     ELSE NoResult("homepage_fingerprint")

\* the two sweeps of _detect_from_careers_pages: subdomains and priority
\* paths, then secondary paths; a sweep is abstracted by what
\* _check_urls_concurrently makes of its urls
CareersSweeps == <<"priority", "secondary">>

\* EnhancedATSDetector._detect_from_careers_pages
detect_from_careers_pages(careers) ==
  IF fingerprint_html(careers["priority"]).provider # None
    THEN fingerprint_html(careers["priority"])
  ELSE IF fingerprint_html(careers["secondary"]).provider # None
    THEN fingerprint_html(careers["secondary"])
  ELSE NoResult("careers_page")

FirstIn(order, S) == Head(SelectSeq(order, LAMBDA a : a \in S))

\* EnhancedATSDetector.detect.  boards gives the answers of the endpoints
\* that have a board of the company, elsewhere is what every other endpoint
\* answers.  stages lists the stages that ran, swallowed the stages in which a
\* request raised a network error, pages the providers the page stages found
detect(technologies, slug_resp, tokens, boards, elsewhere, home, careers) ==
  LET sl == extract_linkedin_slug(slug_resp)
      linkedin_slug == sl.slug
      probe_results == [a \in DOMAIN boards |->
                          probe_ats_api(a, tokens, boards[a], 1, 0)]
      priority_ats == get_priority_ats(technologies)
      ats_to_result == {a \in DOMAIN boards : probe_results[a].result.provider # None}
      homepage_result == detect_from_homepage(home)
      careers_result == detect_from_careers_pages(careers)
      sw1 == (IF slug_resp = "neterror" THEN {"linkedin_slug"} ELSE {})
               \cup (IF \/ \E a \in DOMAIN boards : probe_results[a].errors > 0
                        \/ /\ elsewhere = "neterror"
                           /\ DOMAIN boards # Range(ATS_ENDPOINTS)
                       THEN {"api_probe"} ELSE {})
      sw3 == sw1 \cup (IF \E u \in Range(HomepageUrls) : home[u] = "neterror"
                         THEN {"homepage"} ELSE {})
      sw4 == sw3 \cup (IF \E c \in Range(CareersSweeps) : careers[c] = "neterror"
                         THEN {"careers"} ELSE {})
      Ret(result, stages, swallowed) ==
        [raised |-> None, result |-> result, stages |-> stages,
         swallowed |-> swallowed, hits |-> ats_to_result, slug |-> linkedin_slug,
         pages |-> {homepage_result.provider, careers_result.provider} \ {None}]
  IN IF sl.raised # None
       THEN [raised |-> sl.raised, result |-> NoResult(None),
             stages |-> <<"linkedin_slug">>, swallowed |-> {}, hits |-> {},
             slug |-> None, pages |-> {}]
     ELSE IF Range(priority_ats) \cap ats_to_result # {}
       THEN Ret(probe_results[FirstIn(priority_ats, ats_to_result)].result,
                <<"linkedin_slug", "api_probe">>, sw1)
     ELSE IF ats_to_result # {}
       THEN Ret(probe_results[FirstIn(ATS_ENDPOINTS, ats_to_result)].result,
                <<"linkedin_slug", "api_probe">>, sw1)
     ELSE IF homepage_result.provider # None
       THEN Ret(homepage_result, <<"linkedin_slug", "api_probe", "homepage">>, sw3)
     ELSE IF careers_result.provider # None
       THEN Ret(careers_result,
                <<"linkedin_slug", "api_probe", "homepage", "careers">>, sw4)
     ELSE IF linkedin_slug # None
       THEN Ret([provider |-> "linkedin_only", board_token |-> linkedin_slug,
                 confidence |-> 60, detection_method |-> "linkedin_fallback"],
                <<"linkedin_slug", "api_probe", "homepage", "careers">>, sw4)
     ELSE Ret([provider |-> "linkedin_only", board_token |-> None,
               confidence |-> 30, detection_method |-> "default_fallback"],
              <<"linkedin_slug", "api_probe", "homepage", "careers">>, sw4)

\* the company has a board at no more than MaxBoards ATS; the answers of such
\* an endpoint to the requests of the token loop, up to the one with jobs
BoardSets == {S \in SUBSET Range(ATS_ENDPOINTS) : Cardinality(S) <= MaxBoards}
BoardAnswers == {<<"jobs">>, <<"no_jobs", "jobs">>, <<"neterror", "jobs">>}
AllPlain(urls) == [u \in Range(urls) |-> "plain"]

InitDetector ==
  /\ PipelinesAtRest
  /\ enr = NoEnr
  /\ call \in {[pc |-> "detect", technologies |-> t] : t \in TechnologiesPool}

\* one call of EnhancedATSDetector.detect; the homepage is requested when the
\* probes found nothing, the careers pages when the homepage gave nothing
DetectCall ==
  /\ call.pc = "detect"
  /\ \E slug_resp \in PageResponses, tokens \in Orderings(TokenPool), S \in BoardSets :
     \E boards \in [S -> BoardAnswers], elsewhere \in {"no_jobs", "neterror"} :
     \E home \in (IF S = {} THEN [Range(HomepageUrls) -> PageResponses]
                  ELSE {AllPlain(HomepageUrls)}) :
     \E careers \in (IF S = {} /\ detect_from_homepage(home).provider = None
                       THEN [Range(CareersSweeps) -> PageResponses]
                       ELSE {AllPlain(CareersSweeps)}) :
       LET d == detect(call.technologies, slug_resp, tokens, boards, elsewhere,
                       home, careers)
       IN call' = [pc |-> "returned", technologies |-> call.technologies,
                   raised |-> d.raised, result |-> d.result,
                   stages |-> d.stages, swallowed |-> d.swallowed,
                   hits |-> d.hits, slug |-> d.slug, pages |-> d.pages]
  /\ UNCHANGED <<jobVars, listVars, enr>>

NextDetector == DetectCall

SpecDetector == InitDetector /\ [][NextDetector]_vars

\* --------------------------------------------------- RoleRelevanceScorer
\* the titles, by what the scorers read from them
TitlePool ==
  [exclusion : BOOLEAN, signal : BOOLEAN, ratio : {0, 49, 50, 52, 88, 100}]

\* RELEVANCE_THRESHOLD is any number of the environment; the default, values
\* at the ends of the score range and around the base score of 80
Thresholds == {0, relevance_threshold, 80, 81, 100}

InitScorer ==
  /\ PipelinesAtRest
  /\ enr = NoEnr
  /\ call \in {[pc |-> "score", title |-> t, descHits |-> n, threshold |-> th] :
                 t \in TitlePool, n \in 0..Cardinality(MarketingTerms),
                 th \in Thresholds}

\* one call of score of each of the two scorers
ScoreCall ==
  /\ call.pc = "score"
  /\ call' = [pc |-> "scored", title |-> call.title, descHits |-> call.descHits,
              threshold |-> call.threshold,
              job |-> score(call.title, call.descHits, call.threshold),
              list |-> list_score(call.title, call.descHits, call.threshold)]
  /\ UNCHANGED <<jobVars, listVars, enr>>

NextScorer == ScoreCall

SpecScorer == InitScorer /\ [][NextScorer]_vars

\* ------------------------------------------------------------ ATS clients
\* the clients that test status_code == 404 before raise_for_status
StatusFirstClients == {"ashby", "workable", "jobvite"}

\* the clients that learn of a 404 from the HTTPStatusError handler alone
RaiseFirstClients == {"greenhouse", "breezyhr", "recruitee", "smartrecruiters"}

Clients == RaiseFirstClients \cup StatusFirstClients \cup {"personio", "lever"}

\* the status codes a board answers with
Statuses == {200, 404, 429, 500}

\* response.raise_for_status(): HTTPStatusError on a 4xx or 5xx answer
raise_for_status(status) ==
  IF status >= 400 THEN "HTTPStatusError" ELSE None

\* the postings of a board of n postings, in the order the board lists them
Postings(n) == [i \in 1..n |-> i]

FetchResult(raised, jobs, requests, pages) ==
  [raised |-> raised, jobs |-> jobs, requests |-> requests, pages |-> pages]

\* except httpx.HTTPStatusError as e: 404 -> return [], anything else -> raise
on_http_status_error(status, requests, pages) ==
  IF status = 404
  THEN FetchResult(None, <<>>, requests, pages)
  ELSE FetchResult("HTTPStatusError", <<>>, requests, pages)

swallows_no_parse_error(client) == FALSE

\* the clients whose fetch_jobs returns [] when the body cannot be parsed:
\* except Exception of PersonioClient, except ET.ParseError of JobviteClient
swallows_parse_error(client) == client \in {"personio", "jobvite"}

\* a fetch_jobs whose except Exception clause also takes the status errors
fetch_jobs_swallow_all(client, status, parsable, n) ==
  LET requests == <<[limit |-> None, offset |-> None]>>
  IN IF client \in StatusFirstClients /\ status = 404
     THEN FetchResult(None, <<>>, requests, <<>>)
     ELSE IF raise_for_status(status) # None
     THEN IF client = "personio"
          THEN FetchResult(None, <<>>, requests, <<>>)
          ELSE on_http_status_error(status, requests, <<>>)
     ELSE IF ~parsable
     THEN IF client \in {"personio", "jobvite"}
          THEN FetchResult(None, <<>>, requests, <<>>)
          ELSE FetchResult("JSONDecodeError", <<>>, requests, <<>>)
     ELSE FetchResult(None, Postings(n), requests, <<Postings(n)>>)

\* fetch_jobs of the clients that deliver the whole list in one request:
\* one GET, an unparsable body is swallowed by Personio (except Exception)
\* and Jobvite (except ET.ParseError) and raised by the JSON clients
fetch_jobs(client, status, parsable, n) ==
  LET requests == <<[limit |-> None, offset |-> None]>>
  IN IF client \in StatusFirstClients /\ status = 404
     THEN FetchResult(None, <<>>, requests, <<>>)
     ELSE IF raise_for_status(status) # None
     THEN on_http_status_error(status, requests, <<>>)
     ELSE IF ~parsable
     THEN IF swallows_parse_error(client)
          THEN FetchResult(None, <<>>, requests, <<>>)
          ELSE FetchResult("JSONDecodeError", <<>>, requests, <<>>)
     ELSE FetchResult(None, Postings(n), requests, <<Postings(n)>>)

\* the page the Lever API serves for (limit, offset) on a board of n postings
LeverPage(n, lim, offset) ==
  [i \in 1..Min(lim, IF n > offset THEN n - offset ELSE 0) |-> offset + i]

\* one turn of the while True loop of LeverClient.fetch_jobs; statuses[k] is
\* the status of the answer to the k-th request
RECURSIVE lever_loop(_, _, _, _, _, _, _, _)
lever_loop(n, statuses, parsable, k, offset, all_jobs, requests, pages) ==
  LET reqs == Append(requests, [limit |-> limit, offset |-> offset])
      status == statuses[k]
      postings == LeverPage(n, limit, offset)
  IN IF status = 404
     THEN FetchResult(None, <<>>, reqs, pages)
     ELSE IF raise_for_status(status) # None
     THEN on_http_status_error(status, reqs, pages)
     ELSE IF ~parsable
     THEN FetchResult("JSONDecodeError", <<>>, reqs, pages)
     ELSE IF postings = <<>>
     THEN FetchResult(None, all_jobs, reqs, Append(pages, postings))
     ELSE IF Len(postings) < limit
     THEN FetchResult(None, all_jobs \o postings, reqs, Append(pages, postings))
     ELSE lever_loop(n, statuses, parsable, k + 1, offset + limit,
                     all_jobs \o postings, reqs, Append(pages, postings))

\* LeverClient.fetch_jobs: all_jobs = [], offset = 0, then the loop
lever_fetch_jobs(n, statuses, parsable) ==
  lever_loop(n, statuses, parsable, 1, 0, <<>>, <<>>, <<>>)

\* the boards: a one-request board of up to MaxSinglePostings postings, a
\* Lever board of up to MaxPages full pages and one posting more
InitClient ==
  /\ PipelinesAtRest
  /\ enr = NoEnr
  /\ call \in
       {[pc |-> "fetch", client |-> c, statuses |-> <<st>>, parsable |-> p,
         n |-> n] :
          c \in Clients \ {"lever"}, st \in Statuses, p \in BOOLEAN,
          n \in 0..MaxSinglePostings}
       \cup
       {[pc |-> "fetch", client |-> "lever", statuses |-> sts, parsable |-> p,
         n |-> n] :
          sts \in [1..(MaxPages + 1) -> Statuses], p \in BOOLEAN,
          n \in 0..(MaxPages * limit + 1)}

\* one call of fetch_jobs
FetchCall ==
  /\ call.pc = "fetch"
  /\ LET r == IF call.client = "lever"
              THEN lever_fetch_jobs(call.n, call.statuses, call.parsable)
              ELSE fetch_jobs(call.client, call.statuses[1], call.parsable,
                              call.n)
     IN call' = [pc |-> "fetched", client |-> call.client,
                 statuses |-> call.statuses, parsable |-> call.parsable,
                 n |-> call.n, raised |-> r.raised, jobs |-> r.jobs,
                 requests |-> r.requests, pages |-> r.pages]
  /\ UNCHANGED <<jobVars, listVars, enr>>

NextClient == FetchCall

SpecClient == InitClient /\ [][NextClient]_vars

\* ------------------------------------------------------------- enrichers
\* the sentinel the prompt asks the LLM for when it cannot name a person
Placeholder == "Not confidently identifiable"

\* Python truthiness of an Optional[str]
Truthy(v) == v # None /\ v # ""

\* ApolloEmailFinder._split_name: strip, split on whitespace, first part and
\* the rest
split_name(full_name) ==
  CASE full_name = "Ann Lee" -> <<"Ann", "Lee">>
    [] full_name = "Bo" -> <<"Bo", "">>
    [] full_name = Placeholder -> <<"Not", "confidently identifiable">>
    [] OTHER -> <<"", "">>

DecisionMakerResult(company_name, person_name, title, not_found_reason) ==
  [company_name |-> company_name, person_name |-> person_name,
   title |-> title, not_found_reason |-> not_found_reason]

EmailLookupResult(company_name, person_name, email, linkedin_url, not_found_reason) ==
  [company_name |-> company_name, person_name |-> person_name,
   email |-> email, linkedin_url |-> linkedin_url,
   not_found_reason |-> not_found_reason]

\* items[i : i + batch_size] for i in range(0, len(items), batch_size)
Batches(items, batch_size) ==
  [k \in 1..((Len(items) + batch_size - 1) \div batch_size) |->
     SubSeq(items, (k - 1) * batch_size + 1, Min(k * batch_size, Len(items)))]

\* the answers of the enrichment APIs to one batch request
ApiStatuses == {200, 429, 500}

\* what Apollo answers for one person: a match with an email, a match
\* without one, no match
MatchKinds == {"email", "no_email", "no_match"}

\* ApolloEmailFinder._process_batch: one POST, raise_for_status, then one
\* result per item of the batch
email_process_batch(batch, status, matches) ==
  IF raise_for_status(status) # None
  THEN [raised |-> "HTTPStatusError", results |-> <<>>]
  ELSE [raised |-> None,
        results |->
          [i \in 1..Len(batch) |->
             LET item == batch[i]
                 m == matches[item.company_name]
             IN CASE m = "email" ->
                       EmailLookupResult(item.company_name, item.person_name,
                                         "found@mail", "linkedin", None)
                  [] m = "no_email" ->
                       EmailLookupResult(item.company_name, item.person_name,
                                         None, "linkedin",
                                         "Matched in Apollo but no email available")
                  [] OTHER ->
                       EmailLookupResult(item.company_name, item.person_name,
                                         None, None, "No match found in Apollo")]]

\* an except clause that records the failure of the batch once
email_batch_failed_once(batch) ==
  IF batch = <<>> THEN <<>>
  ELSE <<EmailLookupResult(batch[1].company_name, batch[1].person_name,
                           None, None, "API error")>>

\* find_emails, except Exception: one error result per item of the batch
email_batch_failed(batch) ==
  [i \in 1..Len(batch) |->
     EmailLookupResult(batch[i].company_name, batch[i].person_name,
                       None, None, "API error")]

\* find_emails, the items looked up: the decision makers with a person name
\* whose first part is not empty
lookup_items(decision_makers) ==
  SelectSeq(decision_makers,
            LAMBDA dm : Truthy(dm.person_name)
                        /\ split_name(dm.person_name)[1] # "")

\* the for loop of find_emails over the batches from the k-th on;
\* statuses[k] is the answer to the request of the k-th batch
RECURSIVE email_batches(_, _, _, _, _, _)
email_batches(batches, statuses, matches, k, all_results, requests) ==
  IF k > Len(batches)
  THEN [results |-> all_results, requests |-> requests, delays |-> <<>>]
  ELSE LET r == email_process_batch(batches[k], statuses[k], matches)
       IN email_batches(batches, statuses, matches, k + 1,
                        all_results \o (IF r.raised = None
                                          THEN r.results
                                          ELSE email_batch_failed(batches[k])),
                        Append(requests, [batch |-> k, status |-> statuses[k]]))

\* ApolloEmailFinder.find_emails
find_emails(decision_makers, batch_size, statuses, matches) ==
  LET items == lookup_items(decision_makers)
  IN IF items = <<>>
     THEN [results |-> <<>>, requests |-> <<>>, delays |-> <<>>]
     ELSE email_batches(Batches(items, batch_size), statuses, matches, 1,
                        <<>>, <<>>)

\* what the LLM writes for one company of the batch: a person with two names
\* or with one, the sentinel with or without a reason, an empty person_name,
\* or no entry at all
EntryKinds ==
  {"named", "mononym", "refused", "refused_bare", "blank", "missing"}

\* an else branch that takes every person_name for a person
parse_entry_unchecked(company_name, entry) ==
  CASE entry = "named" -> DecisionMakerResult(company_name, "Ann Lee", "CEO", None)
    [] entry = "mononym" -> DecisionMakerResult(company_name, "Bo", "Owner", None)
    [] entry \in {"refused", "refused_bare"} ->
         DecisionMakerResult(company_name, Placeholder, None, None)
    [] entry = "blank" -> DecisionMakerResult(company_name, None, None, None)
    [] OTHER ->
         DecisionMakerResult(company_name, None, None,
                             "Not found in Gemini response")

\* _parse_response, for one company of the batch: "not confidently" in
\* person_name.lower() gives not_found_reason = entry.get("reason", person);
\* otherwise person_name = person or None; a company without an entry gets
\* "Not found in Gemini response"
parse_entry(company_name, entry) ==
  CASE entry = "named" -> DecisionMakerResult(company_name, "Ann Lee", "CEO", None)
    [] entry = "mononym" -> DecisionMakerResult(company_name, "Bo", "Owner", None)
    [] entry = "refused" ->
         DecisionMakerResult(company_name, None, None, "No public info")
    [] entry = "refused_bare" ->
         DecisionMakerResult(company_name, None, None, Placeholder)
    [] entry = "blank" -> DecisionMakerResult(company_name, None, None, None)
    [] OTHER ->
         DecisionMakerResult(company_name, None, None,
                             "Not found in Gemini response")

\* the keys of results_by_company once _parse_response has gone through the
\* batch: a dict holds a company name once, however often the batch names it
\* (the keys are put here in the order of the batch)
RECURSIVE results_by_company_keys(_, _)
results_by_company_keys(batch, keys) ==
  IF batch = <<>> THEN keys
  ELSE results_by_company_keys(
         Tail(batch),
         IF \E i \in 1..Len(keys) : keys[i] = Head(batch)
           THEN keys ELSE Append(keys, Head(batch)))

\* DecisionMakerFinder._process_batch: one generate_content call, then
\* _parse_response, which returns list(results_by_company.values()); a
\* failed call raises
dm_process_batch(batch, status, entries) ==
  IF status # 200
  THEN [raised |-> "ClientError", results |-> <<>>]
  ELSE LET keys == results_by_company_keys(batch, <<>>) IN
       [raised |-> None,
        results |-> [i \in 1..Len(keys) |->
                       parse_entry(keys[i], entries[keys[i]])]]

\* find_decision_makers, except Exception: one result per company of the
\* batch with not_found_reason "API error: ..."
dm_batch_failed(batch) ==
  [i \in 1..Len(batch) |-> DecisionMakerResult(batch[i], None, None, "API error")]

\* the for loop of find_decision_makers over the batches from the k-th on
RECURSIVE dm_batches(_, _, _, _, _, _)
dm_batches(batches, statuses, entries, k, all_results, requests) ==
  IF k > Len(batches)
  THEN [results |-> all_results, requests |-> requests, delays |-> <<>>]
  ELSE LET r == dm_process_batch(batches[k], statuses[k], entries)
       IN dm_batches(batches, statuses, entries, k + 1,
                     all_results \o (IF r.raised = None
                                       THEN r.results
                                       ELSE dm_batch_failed(batches[k])),
                     Append(requests, [batch |-> k, status |-> statuses[k]]))

\* DecisionMakerFinder.find_decision_makers; companies are named by number
find_decision_makers(companies, batch_size, statuses, entries) ==
  dm_batches(Batches(companies, batch_size), statuses, entries, 1, <<>>, <<>>)

\* the person_name of the decision makers handed to find_emails
PersonPool == {None, " ", "Ann Lee"}

\* the inputs of one call of an enricher: up to MaxInputs companies, the
\* i-th named i
InitFinder ==
  /\ PipelinesAtRest
  /\ enr = NoEnr
  /\ call \in
       {[pc |-> "find", persons |-> ps, batch_size |-> b, statuses |-> sts,
         matches |-> ms, entries |-> es] :
          ps \in UNION {[1..n -> PersonPool] : n \in 0..MaxInputs},
          b \in 1..MaxInputs,
          sts \in [1..MaxInputs -> ApiStatuses],
          ms \in [1..MaxInputs -> {"email", "no_match"}],
          es \in {[i \in 1..MaxInputs |-> "named"]}}
       \cup
       {[pc |-> "find", persons |-> ps, batch_size |-> b, statuses |-> sts,
         matches |-> ms, entries |-> es] :
          ps \in {[i \in 1..MaxInputs |-> "Ann Lee"]},
          b \in 1..MaxInputs,
          sts \in [1..MaxInputs -> ApiStatuses],
          ms \in {[i \in 1..MaxInputs |-> "no_email"]},
          es \in [1..MaxInputs -> EntryKinds]}

\* one call of find_decision_makers on the companies 1..Len(persons) and one
\* of find_emails on decision makers with these person names
FinderCall ==
  /\ call.pc = "find"
  /\ LET n == Len(call.persons)
         dms == [i \in 1..n |->
                   DecisionMakerResult(i, call.persons[i], None, None)]
     IN call' = [pc |-> "found", persons |-> call.persons,
                 batch_size |-> call.batch_size, statuses |-> call.statuses,
                 matches |-> call.matches, entries |-> call.entries,
                 decision_makers |-> dms,
                 dm |-> find_decision_makers([i \in 1..n |-> i],
                                             call.batch_size, call.statuses,
                                             call.entries),
                 email |-> find_emails(dms, call.batch_size, call.statuses,
                                       call.matches)]
  /\ UNCHANGED <<jobVars, listVars, enr>>

NextFinder == FinderCall

SpecFinder == InitFinder /\ [][NextFinder]_vars

\* find_decision_makers on its own, over companies whose names may repeat
\* (the callers key companies by domain, not by name)
NamePool == {"Acme", "Bolt"}

InitDecisionMakers ==
  /\ PipelinesAtRest
  /\ enr = NoEnr
  /\ call \in
       {[pc |-> "companies", companies |-> cs, batch_size |-> b,
         statuses |-> sts, entries |-> es] :
          cs \in UNION {[1..n -> NamePool] : n \in 0..MaxInputs},
          b \in 1..MaxInputs,
          sts \in [1..MaxInputs -> ApiStatuses],
          es \in [NamePool -> {"named", "refused", "missing"}]}

\* one call of find_decision_makers
FindDecisionMakers ==
  /\ call.pc = "companies"
  /\ call' = [pc |-> "results", companies |-> call.companies,
              batch_size |-> call.batch_size, statuses |-> call.statuses,
              entries |-> call.entries,
              dm |-> find_decision_makers(call.companies, call.batch_size,
                                          call.statuses, call.entries)]
  /\ UNCHANGED <<jobVars, listVars, enr>>

NextDecisionMakers == FindDecisionMakers

SpecDecisionMakers == InitDecisionMakers /\ [][NextDecisionMakers]_vars

\* ------------------------------------------- enrichment stages of run()
\* the results of the run that the stages read, in order: the observed
\* company, whose name is unique among the results and whose company_id is
\* Observed
EnrCompanies == <<Observed>>

\* no decision_makers row for the company
NoDmRow ==
  [person_name |-> None, title |-> None, email |-> None, linkedin_url |-> None]

\* a result dict without a decision_maker key
NoDm ==
  [person_name |-> None, title |-> None, email |-> None, linkedin_url |-> None,
   not_found_reason |-> None]

\* Database.upsert_decision_maker with its keyword arguments: INSERT ...
\* ON CONFLICT(company_id) DO UPDATE SET every column = excluded.column;
\* an argument the call leaves out is None; person_name is NOT NULL
upsert_decision_maker_row(table, company_id, person_name, title, email, linkedin_url) ==
  IF person_name = None
  THEN [raised |-> "IntegrityError", table |-> table]
  ELSE [raised |-> None,
        table |-> [table EXCEPT ![company_id] =
                     [person_name |-> person_name, title |-> title,
                      email |-> email, linkedin_url |-> linkedin_url]]]

\* run(), decision-maker stage: for dm in dm_results, skip the ones without
\* person_name, upsert the others; an exception ends the stage
RECURSIVE store_decision_makers(_, _, _)
store_decision_makers(table, dm_results, i) ==
  IF i > Len(dm_results) THEN table
  ELSE LET dm == dm_results[i]
       IN IF ~Truthy(dm.person_name)
          THEN store_decision_makers(table, dm_results, i + 1)
          ELSE LET u == upsert_decision_maker_row(table, dm.company_name,
                                                  dm.person_name, dm.title,
                                                  None, None)
               IN IF u.raised # None THEN table
                  ELSE store_decision_makers(u.table, dm_results, i + 1)

\* run(), email stage: for er in email_results, skip the ones without email,
\* upsert the others with the decision_maker dict of the company's result
RECURSIVE store_emails(_, _, _, _)
store_emails(table, email_results, res, i) ==
  IF i > Len(email_results) THEN table
  ELSE LET er == email_results[i]
           dm == res[er.company_name]
       IN IF ~Truthy(er.email)
          THEN store_emails(table, email_results, res, i + 1)
          ELSE LET u == upsert_decision_maker_row(table, er.company_name,
                                                  dm.person_name, dm.title,
                                                  er.email, er.linkedin_url)
               IN IF u.raised # None THEN table
                  ELSE store_emails(u.table, email_results, res, i + 1)

InitEnrich ==
  /\ PipelinesAtRest
  /\ call = NoCall
  /\ enr = [pc |-> "idle", dry |-> FALSE,
            decision_makers |-> [c \in {Observed} |-> NoDmRow],
            results |-> [c \in {Observed} |-> NoDm],
            needing |-> <<>>, statuses |-> <<>>,
            entries |-> <<>>]

\* run(), decision-maker stage. in_top: the successful results with jobs
\* among the ten most recent companies; a company with a stored person_name
\* gets the stored row as its decision_maker, the others are looked up
EnrichDecisionMakers ==
  /\ enr.pc = "idle"
  /\ \E dry \in BOOLEAN, in_top \in SUBSET {Observed} :
       LET table == enr.decision_makers
           batch_size == gemini_batch_size
           needing == SelectSeq(EnrCompanies,
                                LAMBDA c : c \in in_top
                                           /\ ~Truthy(table[c].person_name))
           kept == {c \in in_top : Truthy(table[c].person_name)}
           nbatches == Len(Batches(needing, batch_size))
       IN \E statuses \in [1..nbatches -> ApiStatuses],
             entries \in [Range(needing) -> EntryKinds] :
            LET dm_results ==
                  find_decision_makers(needing, batch_size, statuses,
                                       entries).results
                found == [c \in Range(needing) |->
                            LET i == CHOOSE j \in 1..Len(dm_results) :
                                       dm_results[j].company_name = c
                            IN dm_results[i]]
                res == [c \in {Observed} |->
                          IF c \in kept
                            THEN [person_name |-> table[c].person_name,
                                  title |-> table[c].title,
                                  email |-> table[c].email,
                                  linkedin_url |-> table[c].linkedin_url,
                                  not_found_reason |-> None]
                          ELSE IF c \in Range(needing)
                            THEN [person_name |-> found[c].person_name,
                                  title |-> found[c].title,
                                  email |-> None, linkedin_url |-> None,
                                  not_found_reason |-> found[c].not_found_reason]
                          ELSE NoDm]
            IN enr' = [pc |-> "emails", dry |-> dry,
                       decision_makers |->
                         IF dry THEN table
                         ELSE store_decision_makers(table, dm_results, 1),
                       results |-> res, needing |-> needing,
                       statuses |-> statuses,
                       entries |-> entries]
  /\ UNCHANGED <<jobVars, listVars, call>>

\* run(), email stage, then the summary: the results with a person_name and
\* no email are looked up, the answers attached, the emails stored
EnrichEmails ==
  /\ enr.pc = "emails"
  /\ LET res == enr.results
         for_email == SelectSeq(EnrCompanies,
                                LAMBDA c : Truthy(res[c].person_name)
                                           /\ ~Truthy(res[c].email))
         dm_objects == [i \in 1..Len(for_email) |->
                          DecisionMakerResult(for_email[i],
                                              res[for_email[i]].person_name,
                                              res[for_email[i]].title, None)]
         batch_size == Min(apollo_batch_size, 10)
     IN \E statuses \in [1..Len(Batches(lookup_items(dm_objects), batch_size))
                           -> ApiStatuses],
           matches \in [Range(for_email) -> MatchKinds] :
          LET email_results ==
                find_emails(dm_objects, batch_size, statuses, matches).results
              answered == {email_results[i].company_name :
                             i \in 1..Len(email_results)}
              er(c) == email_results[CHOOSE i \in 1..Len(email_results) :
                                       email_results[i].company_name = c]
              res2 == [c \in {Observed} |->
                         IF c \in answered
                           THEN [res[c] EXCEPT !.email = er(c).email,
                                               !.linkedin_url = er(c).linkedin_url]
                         ELSE res[c]]
          IN enr' = [enr EXCEPT
                       !.pc = "idle",
                       !.results = res2,
                       !.decision_makers =
                         IF enr.dry THEN @
                         ELSE store_emails(@, email_results, res2, 1)]
  /\ UNCHANGED <<jobVars, listVars, call>>

NextEnrich == EnrichDecisionMakers \/ EnrichEmails

SpecEnrich == InitEnrich /\ [][NextEnrich]_vars

\* ----------------------------------- Database.upsert_decision_maker alone
\* the values a caller passes for a keyword argument; None: left out
TitlePoolDm == {None, "CEO", "Owner"}
EmailPool == {None, "found@mail"}
LinkedinPool == {None, "linkedin"}

NoUpsertArgs ==
  [person_name |-> None, title |-> None, email |-> None, linkedin_url |-> None]

InitUpsert ==
  /\ PipelinesAtRest
  /\ call = NoCall
  /\ enr = [pc |-> "upsert",
            decision_makers |-> [c \in {Observed} |-> NoDmRow],
            before |-> NoDmRow, args |-> NoUpsertArgs]

\* one call of upsert_decision_maker for the observed company
UpsertCall ==
  /\ enr.pc = "upsert"
  /\ \E person_name \in {"Ann Lee", "Bo"}, title \in TitlePoolDm,
        email \in EmailPool, linkedin_url \in LinkedinPool :
       LET u == upsert_decision_maker_row(enr.decision_makers, Observed,
                                          person_name, title, email,
                                          linkedin_url)
       IN enr' = [pc |-> "upsert", decision_makers |-> u.table,
                  before |-> enr.decision_makers[Observed],
                  args |-> [person_name |-> person_name, title |-> title,
                            email |-> email, linkedin_url |-> linkedin_url]]
  /\ UNCHANGED <<jobVars, listVars, call>>

NextUpsert == UpsertCall

SpecUpsert == InitUpsert /\ [][NextUpsert]_vars

\* ------------------------------------------------- company domains
\* the hosts of the Website column: a registered name, written in lower case
\* or with capitals, behind no prefix, "www." or "WWW."
Hosts == [name : {"acme.com", "beta.io"}, capitals : BOOLEAN,
          prefix : {"", "www.", "WWW."}]

\* the host the specification calls normalized: lower case, no leading www.
NormalizedHost(host) == [name |-> host.name, capitals |-> FALSE, prefix |-> ""]

\* _extract_domain on "https://" + host: urlparse(url).netloc keeps the case
\* of the host; .replace("www.", "") removes the lower-case "www." only
extract_domain(host) ==
  [host EXCEPT !.prefix = IF @ = "www." THEN "" ELSE @]

\* Database.upsert_company: SELECT id FROM companies WHERE domain = ?, then
\* UPDATE that row or INSERT a new one; the comparison is byte-wise
upsert_company_by_domain(companies, company) ==
  IF \E row \in companies : row.domain = company.domain
  THEN {IF row.domain = company.domain
          THEN [row EXCEPT !.website = company.website] ELSE row :
        row \in companies}
  ELSE companies \cup {[domain |-> company.domain, website |-> company.website]}

InitDomains ==
  /\ PipelinesAtRest
  /\ enr = NoEnr
  /\ call = [pc |-> "companies", companies |-> {}, sighted |-> {}]

\* one row of the CSV is loaded and its company upserted
SightCompany ==
  /\ call.pc = "companies"
  /\ \E host \in Hosts :
       call' = [pc |-> "companies",
                companies |->
                  upsert_company_by_domain(
                    call.companies,
                    [domain |-> extract_domain(host), website |-> host]),
                sighted |-> call.sighted \cup {NormalizedHost(host)}]
  /\ UNCHANGED <<jobVars, listVars, enr>>

NextDomains == SightCompany

SpecDomains == InitDomains /\ [][NextDomains]_vars

\* --------------------------------------------------- SerpAPIJobClient
\* str.lower().strip() on the company names and titles of the listings
lower_strip(text) ==
  CASE text \in {"Acme", "acme ", "ACME"} -> "acme"
    [] text \in {"Beta"} -> "beta"
    [] text \in {"Sales Rep", " sales rep"} -> "sales rep"
    [] OTHER -> text

\* a key that compares the texts as they are written
dedup_key_exact(company_name, title) == <<company_name, title>>

\* _dedup_key: f"{cn}|||{t}" of the lowered and stripped texts
dedup_key(company_name, title) ==
  <<lower_strip(company_name), lower_strip(title)>>

SerpJobListing(company_name, title) ==
  [company_name |-> company_name, title |-> title, search_metro |-> 0]

SearchResponse(error, jobs_results) ==
  [error |-> error, jobs_results |-> jobs_results]

\* what one Google Jobs search answers: an error, or jobs_results
SearchResponses ==
  { SearchResponse(TRUE, <<>>),
    SearchResponse(FALSE, <<>>),
    SearchResponse(FALSE, <<SerpJobListing("Acme", "Sales Rep")>>),
    SearchResponse(FALSE, <<SerpJobListing("acme ", " sales rep"),
                            SerpJobListing("Beta", "Sales Rep")>>),
    SearchResponse(FALSE, <<SerpJobListing("ACME", "Sales Rep"),
                            SerpJobListing("Acme", "Sales Rep")>>),
    SearchResponse(FALSE, <<SerpJobListing("Beta", " sales rep")>>) }

\* _search_one: the listings of the answer, [] on an error or an exception
search_one(response) ==
  IF response.error THEN <<>> ELSE response.jobs_results

\* a budget test that lets one request more through
budget_exhausted_late(searches_used, budget) == searches_used > budget

\* search_all: if self.searches_used >= self.max_searches
budget_exhausted(searches_used, budget) == searches_used >= budget

\* search_all, for listing in listings: the listings whose key was not seen
\* are stamped with the metro and appended
RECURSIVE dedup_listings(_, _, _, _, _)
dedup_listings(listings, metro, i, seen, all_listings) ==
  IF i > Len(listings) THEN [seen |-> seen, all_listings |-> all_listings]
  ELSE LET key == dedup_key(listings[i].company_name, listings[i].title)
       IN IF key \in seen
          THEN dedup_listings(listings, metro, i + 1, seen, all_listings)
          ELSE dedup_listings(listings, metro, i + 1, seen \cup {key},
                              Append(all_listings,
                                     [listings[i] EXCEPT !.search_metro = metro]))

\* search_all, for metro in metro_areas, from the k-th metro on; responses[k]
\* is the answer to the search of the k-th metro, sent counts the requests
RECURSIVE search_metros(_, _, _, _, _, _, _)
search_metros(budget, responses, k, searches_used, sent, seen, all_listings) ==
  IF k > Len(responses)
  THEN [searches_used |-> searches_used, sent |-> sent,
        listings |-> all_listings, exhausted |-> FALSE]
  ELSE IF budget_exhausted(searches_used, budget)
  THEN [searches_used |-> searches_used, sent |-> sent,
        listings |-> all_listings, exhausted |-> TRUE]
  ELSE LET d == dedup_listings(search_one(responses[k]), k, 1, seen,
                               all_listings)
       IN search_metros(budget, responses, k + 1, searches_used + 1, sent + 1,
                        d.seen, d.all_listings)

\* SerpAPIJobClient.search_all
search_all(budget, searches_used, sent, responses) ==
  search_metros(budget, responses, 1, searches_used, sent, {}, <<>>)

\* SerpAPIJobClient.__init__ at the start of a run, max_searches from
\* MAX_SEARCHES_PER_RUN
InitSearch ==
  /\ PipelinesAtRest
  /\ enr = NoEnr
  /\ \E budget \in 0..MaxSearches :
       call = [pc |-> "client", max_searches |-> budget, searches_used |-> 0,
               sent |-> 0, responses |-> <<>>, listings |-> <<>>,
               exhausted |-> FALSE]

\* one call of search_all in the run, over up to MaxMetros metros
SearchAll ==
  /\ call.pc = "client"
  /\ \E n \in 1..MaxMetros :
     \E responses \in [1..n -> SearchResponses] :
       LET r == search_all(call.max_searches, call.searches_used, call.sent,
                           responses)
       IN call' = [pc |-> "client", max_searches |-> call.max_searches,
                   searches_used |-> r.searches_used, sent |-> r.sent,
                   responses |-> responses, listings |-> r.listings,
                   exhausted |-> r.exhausted]
  /\ UNCHANGED <<jobVars, listVars, enr>>

NextSearch == SearchAll

SpecSearch == InitSearch /\ [][NextSearch]_vars

\* ------------------------------------------------------ metro rotation
\* SerpAPIJobClient.get_next_metros.  The metros of config.metro_areas are
\* named by their positions 0..total-1; the state file is absent, unreadable
\* as JSON, or holds {"next_index": N} as an earlier call wrote it.
StateFiles(total) ==
  {[kind |-> "absent", next_index |-> 0], [kind |-> "corrupt", next_index |-> 0]}
    \cup {[kind |-> "json", next_index |-> i] : i \in 0..(total - 1)}

\* the head of get_next_metros: next_index = 0 unless the file exists and
\* parses
read_next_index(file) == IF file.kind = "json" THEN file.next_index ELSE 0

advance_by_one(next_index, count, total) == (next_index + 1) % total

\* new_index = (next_index + count) % total
advance(next_index, count, total) == (next_index + count) % total

\* selected.append(all_metros[(next_index + i) % total]) for i in range(count)
select_metros(next_index, count, total) ==
  [i \in 1..count |-> (next_index + (i - 1)) % total]

\* the number of consecutive runs that go once around the list
RunsPerRound(total, count) == (total + count - 1) \div count

InitMetros ==
  /\ PipelinesAtRest
  /\ enr = NoEnr
  /\ \E total \in 1..NumMetros :
     \E count \in 1..total, file \in StateFiles(total) :
       call = [pc |-> "metros", total |-> total, count |-> count, file |-> file,
               read |-> 0, selected |-> <<>>, history |-> <<>>]

\* one call of get_next_metros; history keeps the selections of the latest
\* RunsPerRound calls
GetNextMetros ==
  /\ call.pc = "metros"
  /\ LET next_index == read_next_index(call.file)
         selected == select_metros(next_index, call.count, call.total)
         new_index == advance(next_index, call.count, call.total)
         h == Append(call.history, selected)
     IN call' = [call EXCEPT
                   !.file = [kind |-> "json", next_index |-> new_index],
                   !.read = next_index,
                   !.selected = selected,
                   !.history = IF Len(h) > RunsPerRound(call.total, call.count)
                                 THEN Tail(h) ELSE h]
  /\ UNCHANGED <<jobVars, listVars, enr>>

NextMetros == GetNextMetros

SpecMetros == InitMetros /\ [][NextMetros]_vars

\* ---------------------------------------------------------------------------
\* Cold-email processor: the retry loop of summarize_page and
\* generate_icebreaker (src/ColdEmailPersonalization/main.py)
\* ---------------------------------------------------------------------------
MAX_RETRIES == 5
BASE_RETRY_DELAY == 2

LlmOps == {"summarize_page", "generate_icebreaker"}

\* what the operation returns when it gives up
llm_default(op) == IF op = "summarize_page" THEN "no content" ELSE ""

\* what the operation returns from a well-formed answer
llm_value(op) == IF op = "summarize_page" THEN "abstract text" ELSE "icebreaker text"

\* str(e) of the exceptions the loop can catch, as words
NoError == <<>>
ApiErrors == {<<"Error", "code", "429">>, <<"Rate", "limit", "reached">>, <<"You", "exceeded", "your", "Quota">>, <<"Request", "timed", "out">>, <<"Error", "code", "500">>, <<"Incorrect", "API", "key">>}
JsonBodies == {"object", "no_key", "array", "null_content", "malformed", "malformed_at_429"}

\* one answer of chat.completions.create: an exception, or a text that is
\* plain or wrapped in a markdown code block
ApiOutcomes == {[raised |-> e, fenced |-> FALSE, body |-> "object"] : e \in ApiErrors} \cup {[raised |-> NoError, fenced |-> f, body |-> b] : f \in BOOLEAN, b \in JsonBodies}

\* str.lower() on the words of the messages
lower(word) == CASE word = "Rate" -> "rate" [] word = "Quota" -> "quota" [] OTHER -> word

contains(words, phrase) == \E i \in 1..Len(words) : i + Len(phrase) - 1 <= Len(words) /\ SubSeq(words, i, i + Len(phrase) - 1) = phrase

is_rate_limit(error_str) == LET lowered == [i \in 1..Len(error_str) |-> lower(error_str[i])] IN contains(error_str, <<"429">>) \/ contains(lowered, <<"rate", "limit">>) \/ contains(lowered, <<"quota">>)

constant_delay(attempt) == BASE_RETRY_DELAY

retry_delay(attempt) == BASE_RETRY_DELAY * (2 ^ attempt)

\* the try block after the API answered: strip the code block, json.loads,
\* result.get(key, default); error is the str(e) of what it raises
parse_llm_text(op, outcome) == CASE outcome.body = "object" -> [error |-> NoError, value |-> llm_value(op)] [] outcome.body = "no_key" -> [error |-> NoError, value |-> llm_default(op)] [] outcome.body = "array" -> [error |-> <<"list", "object", "has", "no", "attribute", "get">>, value |-> None] [] outcome.body = "null_content" -> [error |-> <<"NoneType", "object", "has", "no", "attribute", "strip">>, value |-> None] [] outcome.body = "malformed" -> [error |-> <<"Expecting", "value", "char", "0">>, value |-> None] [] OTHER -> [error |-> <<"Expecting", "delimiter", "char", "429">>, value |-> None]

\* one pass of `for attempt in range(MAX_RETRIES)`, with the return after the
\* loop when the pass was the last one
llm_attempt(c, outcome) == LET parsed == IF outcome.raised = NoError THEN parse_llm_text(c.op, outcome) ELSE [error |-> outcome.raised, value |-> None]
                               called == [c EXCEPT !.calls = c.calls + 1, !.error_str = parsed.error]
                           IN IF parsed.error = NoError THEN [called EXCEPT !.pc = "returned", !.returned = parsed.value]
                              ELSE IF is_rate_limit(parsed.error) THEN [called EXCEPT !.slept = Append(c.slept, retry_delay(c.attempt)), !.attempt = c.attempt + 1, !.pc = IF c.attempt + 1 < MAX_RETRIES THEN "llm" ELSE "returned", !.returned = IF c.attempt + 1 < MAX_RETRIES THEN None ELSE llm_default(c.op)]
                              ELSE [called EXCEPT !.pc = "returned", !.returned = llm_default(c.op)]

InitRetry ==
  /\ PipelinesAtRest
  /\ enr = NoEnr
  /\ \E op \in LlmOps :
       call = [pc |-> "llm", op |-> op, attempt |-> 0, calls |-> 0,
               slept |-> <<>>, error_str |-> NoError, returned |-> None]

LlmAttempt ==
  /\ call.pc = "llm"
  /\ call.attempt < MAX_RETRIES
  /\ \E outcome \in ApiOutcomes : call' = llm_attempt(call, outcome)
  /\ UNCHANGED <<jobVars, listVars, enr>>

NextRetry == LlmAttempt

\* every awaited API call and every sleep completes, so the loop keeps going
SpecRetry == InitRetry /\ [][NextRetry]_vars /\ WF_vars(LlmAttempt)

\* ---------------------------------------------------------------------------
\* Cold-email processor: concurrent lead tasks appending to the output CSV
\* (src/ColdEmailPersonalization/main.py)
\* ---------------------------------------------------------------------------
MAX_CONCURRENT_LEADS == 2
MaxLeads == 3

\* rows of the CSV file: the header line, the row of lead t, an older row
HeaderRow == 0
OldRow == 0 - 1

\* the output file before the run: missing, present but empty, or left by
\* an earlier run
OutputFiles == {[exists |-> FALSE, rows |-> <<>>], [exists |-> TRUE, rows |-> <<>>], [exists |-> TRUE, rows |-> <<HeaderRow, OldRow>>]}

header_always(file_exists) == TRUE

\* header=not file_exists
write_header(file_exists) == ~file_exists

\* df.to_csv(output_file, mode='a', header=..., index=False) of a one-row frame
to_csv(file, row, header) == [exists |-> TRUE, rows |-> file.rows \o (IF header THEN <<HeaderRow>> ELSE <<>>) \o <<row>>]

\* asyncio.Lock: 0 when nobody holds it
Unlocked == 0

batch_of(i, n) == {t \in 1..n : i < t /\ t <= i + MAX_CONCURRENT_LEADS}

InitCsv ==
  /\ PipelinesAtRest
  /\ enr = NoEnr
  /\ \E n \in 1..MaxLeads, file \in OutputFiles :
       call = [pc |-> "csv", leads |-> n, i |-> 0, started |-> FALSE,
               task |-> [t \in 1..n |-> "pending"], lock |-> Unlocked,
               before |-> file, file |-> file]

\* tasks of leads[i:i + MAX_CONCURRENT_LEADS] are handed to asyncio.gather
StartBatch ==
  /\ call.pc = "csv"
  /\ ~call.started
  /\ call.i < call.leads
  /\ call' = [call EXCEPT !.started = TRUE,
                !.task = [t \in 1..call.leads |-> IF t \in batch_of(call.i, call.leads) THEN "processing" ELSE call.task[t]]]
  /\ UNCHANGED <<jobVars, listVars, enr>>

\* await processor.process_lead(session, lead) returns the lead or raises
ProcessLead(t) ==
  /\ call.pc = "csv"
  /\ call.task[t] = "processing"
  /\ \E outcome \in {"returned", "raised"} :
       call' = [call EXCEPT !.task[t] = outcome]
  /\ UNCHANGED <<jobVars, listVars, enr>>

\* async with lock: entered only while no other task holds the lock
AcquireLock(t) ==
  /\ call.pc = "csv"
  /\ call.task[t] = "returned"
  /\ call.lock = Unlocked
  /\ call' = [call EXCEPT !.task[t] = "locked", !.lock = t]
  /\ UNCHANGED <<jobVars, listVars, enr>>

\* the body of the lock block, which awaits nothing, and the release
SaveLead(t) ==
  /\ call.pc = "csv"
  /\ call.task[t] = "locked"
  /\ LET file_exists == call.file.exists
     IN call' = [call EXCEPT !.file = to_csv(call.file, t, write_header(file_exists)),
                             !.task[t] = "saved", !.lock = Unlocked]
  /\ UNCHANGED <<jobVars, listVars, enr>>

\* gather returned: every task of the batch saved its lead or caught an error
FinishBatch ==
  /\ call.pc = "csv"
  /\ call.started
  /\ \A t \in batch_of(call.i, call.leads) : call.task[t] \in {"saved", "raised"}
  /\ LET next == call.i + MAX_CONCURRENT_LEADS
     IN call' = [call EXCEPT !.started = FALSE, !.i = next,
                             !.pc = IF next < call.leads THEN "csv" ELSE "csv_done"]
  /\ UNCHANGED <<jobVars, listVars, enr>>

NextCsv ==
  \/ StartBatch
  \/ \E t \in 1..MaxLeads : t <= call.leads /\ ProcessLead(t)
  \/ \E t \in 1..MaxLeads : t <= call.leads /\ AcquireLock(t)
  \/ \E t \in 1..MaxLeads : t <= call.leads /\ SaveLead(t)
  \/ FinishBatch

SpecCsv == InitCsv /\ [][NextCsv]_vars

\* ------------------------------------------------- IT-MSP pipeline runs
\* it_msp_discovery.db as the runs of ITMSPOrchestrator see it: the job rows
\* in the order of their insertion and the keys in seen_listings
EmptyMspDb == [jobs |-> <<>>, seen_listings |-> {}]

is_listing_seen_never(db, key) == FALSE

\* Database.is_listing_seen
is_listing_seen(db, key) == key \in db.seen_listings

\* Database.insert_job (IT-MSP variant): a plain INSERT, committed
msp_insert_job(db, listing) ==
  [db EXCEPT !.jobs = Append(@, [company_name |-> listing.company_name,
                                 title |-> listing.title])]

\* Database.mark_listing_seen: INSERT OR IGNORE, committed
mark_listing_seen(db, key) ==
  [db EXCEPT !.seen_listings = @ \cup {key}]

\* step 2 of ITMSPOrchestrator.run, for listing in all_listings, from the
\* i-th listing on
RECURSIVE store_listings(_, _, _, _, _)
store_listings(db, all_listings, i, dry, new_count) ==
  IF i > Len(all_listings) THEN [db |-> db, new_count |-> new_count]
  ELSE LET listing == all_listings[i]
           key == dedup_key(listing.company_name, listing.title)
       IN IF is_listing_seen(db, key)
          THEN store_listings(db, all_listings, i + 1, dry, new_count)
          ELSE store_listings(
                 IF dry THEN db
                 ELSE mark_listing_seen(msp_insert_job(db, listing), key),
                 all_listings, i + 1, dry, new_count + 1)

\* a fresh database file
InitMsp ==
  /\ PipelinesAtRest
  /\ enr = NoEnr
  /\ call = [pc |-> "msp", db |-> EmptyMspDb, runs |-> 0, dry |-> FALSE,
             all_listings |-> <<>>, new_count |-> 0]

\* one invocation of ITMSPOrchestrator.run: the searches of the day's metros,
\* the early return when nothing was found, the storing loop
MspRun ==
  /\ call.pc = "msp"
  /\ call.runs < MaxRuns
  /\ \E dry \in BOOLEAN, n \in 1..MaxMetros :
     \E responses \in [1..n -> SearchResponses] :
       LET all_listings == search_all(MaxSearches, 0, 0, responses).listings
           r == store_listings(call.db, all_listings, 1, dry, 0)
       IN call' = [pc |-> "msp", db |-> r.db, runs |-> call.runs + 1,
                   dry |-> dry, all_listings |-> all_listings,
                   new_count |-> r.new_count]
  /\ UNCHANGED <<jobVars, listVars, enr>>

NextMsp == MspRun

SpecMsp == InitMsp /\ [][NextMsp]_vars

\* ------------------------------------------------------------- cli run
\* cmd_run of the three command lines that have a run verb.  The exit status
\* of the process is the argument of sys.exit, 1 when an exception leaves
\* main(), 0 when main() returns.
Clis == {"MarketingJobDiscovery", "MarketingListDiscovery", "ITMSPDiscovery"}

\* --date exists on the list-discovery command line only
DateArgs(cli) ==
  IF cli = "MarketingListDiscovery" THEN {None, "valid", "invalid"} ELSE {None}

\* Config.from_env() and Database(config.db_path), before the try
SetupOutcomes == {"ok", "Exception"}

\* asyncio.run(orchestrator.run()), in the try
RunOutcomes == {"ok", "KeyboardInterrupt", "Exception"}

\* db.close(), in the finally clause
CloseOutcomes == {"ok", "Exception"}

run_exit_two(run) ==
  CASE run = "KeyboardInterrupt" -> 1
    [] run = "Exception" -> 2
    [] OTHER -> 0

\* the try / except KeyboardInterrupt / except Exception of cmd_run
run_exit(run) ==
  CASE run = "KeyboardInterrupt" -> 1
    [] run = "Exception" -> 1
    [] OTHER -> 0

\* cmd_run: the exit status it ends the process with
cmd_run(cli, date, setup, run, close) ==
  IF date = "invalid" THEN 1
  ELSE IF setup # "ok" THEN 1
  ELSE IF close # "ok" THEN 1
  ELSE run_exit(run)

\* the command line is parsed and run was chosen
InitCli ==
  /\ PipelinesAtRest
  /\ enr = NoEnr
  /\ \E cli \in Clis, verbose \in BOOLEAN, dry \in BOOLEAN :
     \E date \in DateArgs(cli) :
       call = [pc |-> "cmd_run", cli |-> cli, verbose |-> verbose,
               dry_run |-> dry, date |-> date]

\* args.func(args) for the run verb; the environment answers the calls
\* cmd_run gets to make
CmdRun ==
  /\ call.pc = "cmd_run"
  /\ \E setup \in (IF call.date = "invalid" THEN {"none"} ELSE SetupOutcomes) :
     \E run \in (IF setup = "ok" THEN RunOutcomes ELSE {"none"}) :
     \E close \in (IF setup = "ok" THEN CloseOutcomes ELSE {"none"}) :
       call' = [pc |-> "exited", cli |-> call.cli, verbose |-> call.verbose,
                dry_run |-> call.dry_run, date |-> call.date,
                setup |-> setup, run |-> run, close |-> close,
                exit_code |-> cmd_run(call.cli, call.date, setup, run, close)]
  /\ UNCHANGED <<jobVars, listVars, enr>>

NextCli == CmdRun

SpecCli == InitCli /\ [][NextCli]_vars

\* ------------------------------------- a company with an ATS board, alone
\* _process_company of the job-discovery pipeline on one company whose ATS is
\* `client`: an earlier run stored the relevant postings 1..m of its board,
\* this run's fetch_jobs gets the answer (status, parsable, n postings).
JobPostings(n) ==
  [i \in 1..n |-> [external_id |-> i, title |-> MarketingManager, descHits |-> 0]]

BoardDetection(client) ==
  [provider |-> client, board_token |-> "tok", confidence |-> 95,
   detection_method |-> "api_probe"]

\* the database file after a first run, not a dry run, fetched the postings
\* 1..m from the board, seen by the next invocation delta days later
StoreAfterRun(client, m, delta) ==
  LET empty == [conn |-> EmptyDb, disk |-> EmptyDb]
      out == process_company(empty, TRUE, BoardDetection(client),
                             [ok |-> TRUE, jobs |-> JobPostings(m)], <<>>, 0, FALSE)
  IN [conn |-> Age(out.s.disk, delta), disk |-> Age(out.s.disk, delta)]

\* ats_client.fetch_jobs() as _process_company sees it: raised or a list; a
\* board can list a posting more than once (the same link twice on a Personio
\* page), here its first posting `repeats` more times
client_fetch(client, status, parsable, n, repeats) ==
  LET r == IF client = "lever"
           THEN lever_fetch_jobs(n, <<status>>, parsable)
           ELSE fetch_jobs(client, status, parsable, n)
      jobs == JobPostings(Len(r.jobs))
  IN [ok |-> r.raised = None,
      jobs |-> IF jobs = <<>> THEN jobs
               ELSE jobs \o [i \in 1..repeats |-> jobs[1]]]

InitBoard ==
  /\ PipelinesAtRest
  /\ enr = NoEnr
  /\ call \in
       {[pc |-> "company", client |-> c, s |-> StoreAfterRun(c, m, delta),
         dry |-> d, status |-> st, parsable |-> p, n |-> n, repeats |-> k] :
          c \in Clients, m \in 0..NumExtIds, delta \in ClockSteps,
          d \in BOOLEAN, st \in Statuses, p \in BOOLEAN, n \in 0..NumExtIds,
          k \in 0..MaxRepeats}

\* one call of _process_company for the company
ProcessBoard ==
  /\ call.pc = "company"
  /\ LET fetch == client_fetch(call.client, call.status, call.parsable, call.n,
                               call.repeats)
         cid == call.s.conn.company.id
     IN \E order \in (IF fetch.ok
                        THEN Orderings(RemovedIds(call.s.conn, cid, fetch.jobs))
                        ELSE {<<>>}) :
          LET out == process_company(call.s, TRUE, BoardDetection(call.client),
                                     fetch, order, 0, call.dry)
          IN call' = [pc |-> "processed", client |-> call.client,
                      before |-> call.s, dry |-> call.dry,
                      status |-> call.status, parsable |-> call.parsable,
                      n |-> call.n, repeats |-> call.repeats,
                      fetch_ok |-> fetch.ok, jobs |-> fetch.jobs, s |-> out.s,
                      result |-> run_loop_result(out.raised, out.result),
                      returned |-> out.result, applied |-> out.applied]
  /\ UNCHANGED <<jobVars, listVars, enr>>

NextBoard == ProcessBoard

SpecBoard == InitBoard /\ [][NextBoard]_vars

\* ------------------------------------------------------------ properties

\* C1: a run that applies, for the company, the same relevant postings as
\* the run right before it finishes apply_changes, writes no JobChange row,
\* and writes its RunSnapshot row, with new_jobs = 0 and removed_jobs = 0
C1_SecondRunWritesNoChange ==
  last.same =>
    /\ last.applied = "ok"
    /\ \A i \in 1..Len(conn.job_changes) : conn.job_changes[i].run_id # Cur
    /\ \A i \in 1..Len(disk.job_changes) : disk.job_changes[i].run_id # Cur
    /\ Len(disk.run_snapshots) = 1
    /\ disk.run_snapshots[1].run_id = Cur
    /\ disk.run_snapshots[1].new_jobs = 0
    /\ disk.run_snapshots[1].removed_jobs = 0

\* C2: after apply_changes ran for the company, with A the external ids
\* active before the run's writes and F the fetched relevant ids: every id of
\* F \ A has an active row and exactly one JobChange(new) of this run, every
\* id of A \ F has an inactive row and exactly one JobChange(removed) of this
\* run, every id of A \cap F has last_seen_at of this run and no JobChange of
\* this run
C2_DiffApplied ==
  (last.processed /\ last.applied \in {"ok", "IntegrityError"}) =>
    LET A == last.A
        F == ExtIdsOf(last.jobs)
        Row(e) == {j \in conn.jobs : j.external_id = e}
        Written(e, type) ==
          {i \in 1..Len(conn.job_changes) :
             /\ conn.job_changes[i].run_id = Cur
             /\ conn.job_changes[i].change_type = type
             /\ \E j \in Row(e) : j.id = conn.job_changes[i].job_id}
    IN /\ \A e \in F \ A :
            /\ \E j \in Row(e) : j.is_active = 1
            /\ Cardinality(Written(e, "new")) = 1
            /\ Written(e, "removed") = {}
       /\ \A e \in A \ F :
            /\ \E j \in Row(e) : j.is_active = 0
            /\ Cardinality(Written(e, "removed")) = 1
            /\ Written(e, "new") = {}
       /\ \A e \in A \cap F :
            /\ \E j \in Row(e) : j.is_active = 1 /\ j.last_seen_at = Cur
            /\ Written(e, "new") = {}
            /\ Written(e, "removed") = {}

\* C3: every JobChange row written by the run (on the connection and in the
\* file) references an existing job that is active when the row's type is
\* new and inactive when it is removed
C3_ChangeTypeMatchesIsActive ==
  \A db \in {conn, disk} :
    \A i \in 1..Len(db.job_changes) :
      db.job_changes[i].run_id = Cur =>
        \E j \in db.jobs :
          /\ j.id = db.job_changes[i].job_id
          /\ j.is_active = (IF db.job_changes[i].change_type = "new" THEN 1 ELSE 0)

C3_WitnessRemoved ==
  /\ pc = "idle"
  /\ \E i \in 1..Len(disk.job_changes) :
       /\ disk.job_changes[i].run_id = Cur
       /\ disk.job_changes[i].change_type = "removed"
       /\ \E k \in 1..Len(disk.job_changes) :
            /\ disk.job_changes[k].job_id = disk.job_changes[i].job_id
            /\ disk.job_changes[k].change_type = "new"

\* C4: when apply_changes ran with a fetched id whose row was inactive before
\* the run, that row is active afterwards and a JobChange(new) of this run
\* references it
C4_Reactivation ==
  (last.processed /\ last.applied \in {"ok", "IntegrityError"}) =>
    \A e \in last.Inactive \cap ExtIdsOf(last.jobs) :
      \E j \in conn.jobs :
        /\ j.external_id = e
        /\ j.is_active = 1
        /\ \E i \in 1..Len(conn.job_changes) :
             /\ conn.job_changes[i].job_id = j.id
             /\ conn.job_changes[i].run_id = Cur
             /\ conn.job_changes[i].change_type = "new"

\* C5: no step leaves two job rows with the same (company_id, external_id),
\* and no step removes a job row: every row is still there afterwards, with
\* its id and its key
C5_OneRowPerKeyNoneDeleted ==
  [][ /\ \A j, k \in ldb'.jobs :
           (j.company_id = k.company_id /\ j.external_id = k.external_id) => j = k
      /\ \A j \in ldb.jobs :
           \E k \in ldb'.jobs :
             /\ k.id = j.id
             /\ k.company_id = j.company_id
             /\ k.external_id = j.external_id ]_vars

\* C6: in the database file, a job row and its latest JobChange row agree: an
\* active row has a latest change of type new, an inactive row one of type
\* removed, and every JobChange row references a stored job
C6_TransitionInBothTables ==
  /\ \A j \in disk.jobs :
       LET own == {i \in 1..Len(disk.job_changes) : disk.job_changes[i].job_id = j.id}
       IN /\ own # {}
          /\ \E m \in own :
               /\ \A i \in own : i <= m
               /\ disk.job_changes[m].change_type =
                    (IF j.is_active = 1 THEN "new" ELSE "removed")
  /\ \A i \in 1..Len(disk.job_changes) :
       \E j \in disk.jobs : j.id = disk.job_changes[i].job_id

\* C7: every JobChange(removed) row is preceded by a JobChange(new) row of
\* the same job
C7_RemovedHasEarlierNew ==
  \A db \in {conn, disk} :
    \A i \in 1..Len(db.job_changes) :
      db.job_changes[i].change_type = "removed" =>
        \E k \in 1..(i - 1) :
          /\ db.job_changes[k].job_id = db.job_changes[i].job_id
          /\ db.job_changes[k].change_type = "new"

\* C8: once a run that is not dry has stored the company, its urgency_score
\* is the number of its active job rows (every row of this pipeline is a
\* marketing role)
C8_UrgencyIsActiveCount ==
  (~lrun.dry /\ \E i \in 1..Len(lrun.results) : lrun.results[i].domain = Observed) =>
    ldb.company.urgency_score =
      Cardinality({j \in ldb.jobs : j.company_id = ldb.company.id /\ j.is_active = 1})

\* C9: when the fetched listings hold a company that had a seen_companies
\* row as the run loaded its candidates, the company is not queued, gets no
\* result, no lookup request is made for it, and its company, job and
\* decision-maker rows stay as they were
C9_SeenCompanyUntouched ==
  (Observed \in lrun.candidates /\ Observed \in lrun.db0.seen_companies) =>
    /\ \A i \in 1..Len(lrun.queue) : lrun.queue[i].domain # Observed
    /\ \A i \in 1..Len(lrun.results) : lrun.results[i].domain # Observed
    /\ Observed \notin lrun.net
    /\ ldb.company = lrun.db0.company
    /\ ldb.jobs = lrun.db0.jobs
    /\ ldb.job_seq = lrun.db0.job_seq
    /\ ldb.decision_maker = lrun.db0.decision_maker

C9_Witness ==
  /\ lrun.pc = "done"
  /\ Observed \in lrun.candidates
  /\ Observed \in lrun.db0.seen_companies
  /\ ldb.jobs # {}
  /\ lrun.results # <<>>
  /\ lrun.net # {}

\* C10: when the latest detection that probed the network returned provider
\* P and token T at most ats_cache_ttl_days ago, the detection for the
\* company returns P, T, confidence 1.0 (100 percent) and method "cache", and
\* probes nothing
C10_CacheHitWithinTTL ==
  ( /\ last.processed
    /\ last.robots
    /\ last.prevDet.provider # None
    /\ last.prevDet.age <= ats_cache_ttl_days ) =>
      /\ last.det = [provider |-> last.prevDet.provider,
                     board_token |-> last.prevDet.board_token,
                     confidence |-> 100, detection_method |-> "cache"]
      /\ last.http = 0

C10_Witness ==
  /\ last.processed
  /\ last.robots
  /\ last.prevDet.provider = "greenhouse"
  /\ last.prevDet.age = ats_cache_ttl_days
  /\ last.det.detection_method = "cache"
  /\ last.http = 0

\* C11: a lookup that finds a cache row past its expiry (age beyond
\* ats_cache_ttl_days) reports the domain absent and leaves no row for it on
\* the connection and in the file; in the run, the iteration whose lookup
\* found the expired row asked the detector and did not return a cached
\* result
C11_ExpiredEntryAbsentAndDeleted ==
  /\ (conn.ats_cache.provider # None /\ conn.ats_cache.age > ats_cache_ttl_days) =>
       LET g == cache_get([conn |-> conn, disk |-> disk]) IN
         /\ ~g.hit
         /\ g.s.conn.ats_cache = NoEntry
         /\ g.s.disk.ats_cache = NoEntry
  /\ ( /\ last.processed
       /\ last.robots
       /\ last.prevDet.provider # None
       /\ last.prevDet.age > ats_cache_ttl_days ) =>
         /\ last.http = 1
         /\ last.det.detection_method # "cache"

C11_Witness ==
  /\ last.processed
  /\ last.robots
  /\ last.prevDet.provider = "greenhouse"
  /\ last.prevDet.age > ats_cache_ttl_days
  /\ last.http = 1
  /\ last.det.provider = "linkedin_only"
  /\ disk.ats_cache.provider = "linkedin_only"
  /\ disk.ats_cache.age = 0

C13_ErrorsIsolated ==
  /\ pc = "running" => Len(results) = idx - 1
  /\ (last.processed /\ last.applied \in {"ok", "IntegrityError", "OperationalError"}) =>
       /\ Len(results) >= focus
       /\ results[focus].status = "error"
  /\ (pc = "idle" /\ results # <<>>) =>
       \/ Len(results) = NumCompanies
       \/ total_jobs_processed >= max_jobs

C13_Witness ==
  /\ pc = "idle"
  /\ focus = 1
  /\ last.applied = "IntegrityError"
  /\ results[1].status = "error"
  /\ Len(results) = NumCompanies

\* C14: no step of a dry run changes the content of the database file
\* (companies, jobs, job_changes, run_snapshots, ats_cache)
C14_DryRunWritesNothing ==
  [][ (pc = "running" /\ dry_run) => disk' = disk ]_vars

\* C15: a call of detect returns a result with a provider and raises
\* nothing, whatever requests met a network error; the result is the default
\* fallback {linkedin_only, none, 0.3, "default_fallback"} only when the slug
\* request, the API probes, the homepage and the careers sweep all ran and
\* found nothing; when they found nothing but a LinkedIn slug, the result is
\* {linkedin_only, slug, 0.6, "linkedin_fallback"}
C15_DetectAlwaysReturns ==
  call.pc = "returned" =>
    LET Unsuccessful == call.hits = {} /\ call.pages = {}
        AllStages == <<"linkedin_slug", "api_probe", "homepage", "careers">>
    IN /\ call.raised = None
       /\ call.result.provider # None
       /\ call.result.detection_method = "default_fallback" =>
            /\ Unsuccessful
            /\ call.slug = None
            /\ call.stages = AllStages
       /\ (Unsuccessful /\ call.slug = None) =>
            call.result = [provider |-> "linkedin_only", board_token |-> None,
                           confidence |-> 30,
                           detection_method |-> "default_fallback"]
       /\ (Unsuccessful /\ call.slug # None) =>
            /\ call.stages = AllStages
            /\ call.result = [provider |-> "linkedin_only",
                              board_token |-> call.slug, confidence |-> 60,
                              detection_method |-> "linkedin_fallback"]

C15_Witness ==
  /\ call.pc = "returned"
  /\ call.result.detection_method = "default_fallback"
  /\ call.swallowed = {"linkedin_slug", "api_probe", "homepage", "careers"}

\* C16: when the probes of several ATS hit, the result is a hit with
\* confidence 0.95 and method "api_probe"; it is a hit the technologies field
\* hints at when there is one, else the hit that comes first in Greenhouse >
\* Lever > Ashby > Workable > SmartRecruiters > Recruitee > BreezyHR >
\* Personio > Jobvite
C16_PriorityOrder ==
  (call.pc = "returned" /\ call.hits # {}) =>
    LET Order == <<"greenhouse", "lever", "ashby", "workable", "smartrecruiters",
                   "recruitee", "breezyhr", "personio", "jobvite">>
        Pos(a) == CHOOSE i \in 1..Len(Order) : Order[i] = a
    IN /\ call.result.provider \in call.hits
       /\ call.result.confidence = 95
       /\ call.result.detection_method = "api_probe"
       /\ IF call.hits \cap call.technologies # {}
            THEN call.result.provider \in call.technologies
            ELSE \A h \in call.hits : Pos(call.result.provider) <= Pos(h)

C16_Witness ==
  /\ call.pc = "returned"
  /\ call.technologies = {"jobvite", "smartrecruiters"}
  /\ call.hits = {"greenhouse", "jobvite"}
  /\ call.result.provider = "jobvite"

C16_WitnessDefaultOrder ==
  /\ call.pc = "returned"
  /\ call.technologies = {}
  /\ call.hits = {"smartrecruiters", "jobvite"}
  /\ call.result.provider = "smartrecruiters"

\* C17: for a title that holds an exclusion keyword both scorers return
\* score 0, category "excluded", no matched keywords and is_relevant false,
\* whatever marketing signal the title and the description carry
C17_ExclusionDominates ==
  (call.pc = "scored" /\ call.title.exclusion) =>
    /\ call.list = [score |-> 0, matched_category |-> "excluded",
                    matched_keywords |-> <<>>, is_relevant |-> FALSE]
    /\ call.job = [score |-> 0, matched_category |-> "excluded",
                   matched_keywords |-> <<>>, is_relevant |-> FALSE]

C17_Witness ==
  /\ call.pc = "scored"
  /\ call.title = [exclusion |-> TRUE, signal |-> TRUE, ratio |-> 100]
  /\ call.descHits = Cardinality(MarketingTerms)
  /\ call.list.matched_category = "excluded"

C19_NotFoundEmptyOthersPropagate ==
  call.pc = "fetched" =>
    LET answered == {call.statuses[k] : k \in 1..Len(call.requests)}
    IN /\ 404 \in answered => (call.raised = None /\ call.jobs = <<>>)
       /\ answered \cap {429, 500} # {} => call.raised = "HTTPStatusError"

C19_Witness ==
  /\ call.pc = "fetched"
  /\ call.client = "personio"
  /\ call.statuses[1] = 429
  /\ call.raised = "HTTPStatusError"

C19_WitnessNotFound ==
  /\ call.pc = "fetched"
  /\ call.client = "greenhouse"
  /\ call.statuses[1] = 404
  /\ call.n > 0
  /\ call.raised = None
  /\ call.jobs = <<>>

\* the pages in the order they were received, joined end to end
RECURSIVE Concat(_)
Concat(pages) ==
  IF pages = <<>> THEN <<>> ELSE Head(pages) \o Concat(Tail(pages))

\* C20: a Lever fetch_jobs that returns has requested pages of 50 at the
\* offsets 0, 50, 100, ..., has stopped at the first page shorter than 50,
\* and returns the postings of every page it fetched, joined in order
C20_LeverReturnsEveryPageFetched ==
  (call.pc = "fetched" /\ call.client = "lever" /\ call.raised = None) =>
    /\ \A k \in 1..Len(call.requests) :
         call.requests[k] = [limit |-> 50, offset |-> 50 * (k - 1)]
    /\ \A k \in 1..Len(call.pages) :
         (Len(call.pages[k]) < 50) <=> (k = Len(call.requests))
    /\ call.jobs = Concat(call.pages)

\* C20, on the boards that answer 200 to every request
C20_LeverAllPagesOk ==
  (/\ call.pc = "fetched"
   /\ call.client = "lever"
   /\ call.parsable
   /\ \A k \in 1..Len(call.requests) : call.statuses[k] = 200) =>
    /\ call.raised = None
    /\ Len(call.requests) = (call.n \div 50) + 1
    /\ call.jobs = Postings(call.n)

\* C21: a batch request of either enricher that is answered 429 is sent
\* again after a wait, so the log of requests holds a later request for the
\* same batch and the log of waits is not empty
C21_RateLimitedBatchRetried ==
  call.pc = "found" =>
    \A log \in {call.dm, call.email} :
      \A i \in 1..Len(log.requests) :
        log.requests[i].status = 429 =>
          /\ \E j \in (i + 1)..Len(log.requests) :
               log.requests[j].batch = log.requests[i].batch
          /\ log.delays # <<>>

C23_RefusalPreserved ==
  /\ \A c \in DOMAIN enr.decision_makers :
       /\ enr.decision_makers[c].person_name \notin {Placeholder, ""}
       /\ enr.decision_makers[c] # NoDmRow =>
            Truthy(enr.decision_makers[c].person_name)
  /\ \A i \in 1..Len(enr.needing) :
       LET c == enr.needing[i]
       IN (/\ enr.statuses[((i - 1) \div gemini_batch_size) + 1] = 200
           /\ enr.entries[c] \in {"refused", "refused_bare"}) =>
            /\ enr.decision_makers[c] = NoDmRow
            /\ enr.results[c].person_name = None
            /\ enr.results[c].not_found_reason # None

C23_Witness ==
  /\ enr.pc = "idle"
  /\ ~enr.dry
  /\ enr.needing = <<Observed>>
  /\ enr.statuses[1] = 200
  /\ enr.entries[Observed] = "refused"
  /\ enr.results[Observed].not_found_reason = "No public info"
  /\ enr.decision_makers[Observed] = NoDmRow

\* C24: after upsert_decision_maker on a company that had a row, a field the
\* call passed holds the passed value and a field the call left out holds
\* the value it had before
C24_AbsentFieldsKept ==
  enr.pc = "upsert" /\ enr.before # NoDmRow =>
    LET row == enr.decision_makers[Observed]
    IN /\ row.person_name = enr.args.person_name
       /\ row.title = IF enr.args.title # None THEN enr.args.title
                      ELSE enr.before.title
       /\ row.email = IF enr.args.email # None THEN enr.args.email
                      ELSE enr.before.email
       /\ row.linkedin_url = IF enr.args.linkedin_url # None
                             THEN enr.args.linkedin_url
                             ELSE enr.before.linkedin_url

\* C25: every stored domain is a normalized host, and for every normalized
\* host sighted there is exactly one company row of that host
C25_OneRowPerNormalizedDomain ==
  call.pc = "companies" =>
    /\ \A row \in call.companies : row.domain = NormalizedHost(row.domain)
    /\ \A d \in call.sighted :
         Cardinality({row \in call.companies :
                        NormalizedHost(row.domain) = d}) = 1

\* C26: the client of a run has sent at most max_searches search requests,
\* the failed ones counted
C26_SearchesWithinBudget ==
  call.pc = "client" => call.sent <= call.max_searches

C26_Witness ==
  /\ call.pc = "client"
  /\ call.max_searches = 1
  /\ call.sent = 1
  /\ Len(call.responses) = 2
  /\ call.responses[1].error
  /\ call.exhausted

\* C27: no two listings returned by one search_all have the same
\* (lower(company_name), lower(title)), and a returned listing is the first
\* one with its key among the answers of the metros searched, in order
C27_ListingsDeduplicated ==
  call.pc = "client" =>
    LET L == call.listings
        Lower(l) == <<lower_strip(l.company_name), lower_strip(l.title)>>
        searched == IF call.exhausted
                      THEN {k \in 1..Len(call.responses) :
                              \E i \in 1..Len(L) : L[i].search_metro >= k}
                      ELSE 1..Len(call.responses)
    IN /\ \A i, j \in 1..Len(L) : Lower(L[i]) = Lower(L[j]) => i = j
       /\ \A i \in 1..Len(L) :
            LET k == L[i].search_metro
                answer == search_one(call.responses[k])
            IN /\ \E a \in 1..Len(answer) :
                    /\ answer[a].company_name = L[i].company_name
                    /\ answer[a].title = L[i].title
                    /\ \A b \in 1..(a - 1) : Lower(answer[b]) # Lower(L[i])
               /\ \A k2 \in 1..(k - 1) :
                    LET earlier == search_one(call.responses[k2])
                    IN \A b \in 1..Len(earlier) : Lower(earlier[b]) # Lower(L[i])
       /\ \A k \in searched :
            LET answer == search_one(call.responses[k])
            IN \A a \in 1..Len(answer) :
                 \E i \in 1..Len(L) : Lower(L[i]) = Lower(answer[a])

C27_Witness ==
  /\ call.pc = "client"
  /\ Len(call.responses) = 2
  /\ call.responses[1].jobs_results = <<SerpJobListing("Acme", "Sales Rep")>>
  /\ Len(call.responses[2].jobs_results) = 2
  /\ ~call.exhausted
  /\ Len(call.listings) = 2
  /\ call.listings[1].company_name = "Acme"
  /\ call.listings[2].company_name = "Beta"

C29_FetchErrorInRunSnapshot ==
  (/\ last.processed
   /\ last.robots
   /\ last.det.provider \in ATS_CLIENTS
   /\ ~last.fetch_ok
   /\ ~last.dry) =>
    /\ results[focus].status = "fetch_error"
    /\ \E i \in 1..Len(disk.run_snapshots) :
         /\ disk.run_snapshots[i].run_id = Cur
         /\ disk.run_snapshots[i].company_id = disk.company.id
         /\ disk.run_snapshots[i].status # "success"

C31_SleepAfterEveryCompany == sleeps = Len(results)

\* C32: find_decision_makers returns one result per input company, in every
\* case: the results are as many as the companies, every company of a batch
\* whose call failed has an "API error" result, and every company of a batch
\* whose call succeeded has a result, be it "Not found in Gemini response"
C32_OneResultPerCompany ==
  call.pc = "results" =>
    /\ Len(call.dm.results) = Len(call.companies)
    /\ Len(call.dm.requests) = Len(Batches(call.companies, call.batch_size))
    /\ \A i \in 1..Len(call.companies) :
         \E k \in 1..Len(call.dm.results) :
           call.dm.results[k].company_name = call.companies[i]

\* the jobs of the company that were active before the call are inactive
\* after it, each with a JobChange row "removed" of this run
C33_AllActiveMarkedRemoved ==
  \A j \in ActiveRows(call.before.disk, call.before.disk.company.id) :
    /\ \E k \in call.s.disk.jobs : k.id = j.id /\ k.is_active = 0
    /\ \E i \in 1..Len(call.s.disk.job_changes) :
         /\ call.s.disk.job_changes[i].job_id = j.id
         /\ call.s.disk.job_changes[i].change_type = "removed"
         /\ Len(call.before.disk.job_changes) < i

\* C33: when the body of a 200 answer of the board cannot be parsed, the
\* processing of the company does not fail the fetch (change detection gets
\* the empty list) and every job of the company that was active is marked
\* removed
C33_UnparsableMarksAllRemoved ==
  (call.pc = "processed" /\ call.status = 200 /\ ~call.parsable) =>
    /\ call.fetch_ok
    /\ C33_AllActiveMarkedRemoved

\* C33 (amended): outside a dry run, an unparsable Jobvite feed or Personio
\* page gives change detection the empty list and every active job of the
\* company is marked removed; unparsable JSON of any other client ends the
\* company with fetch_error and leaves its jobs and job changes as they were
C33_UnparsableXmlHtmlMarksAllRemoved ==
  (call.pc = "processed" /\ call.status = 200 /\ ~call.parsable) =>
    /\ (call.client \in {"jobvite", "personio"} /\ ~call.dry) =>
         /\ call.fetch_ok
         /\ call.returned.status = "success"
         /\ call.returned.jobs_found = 0
         /\ C33_AllActiveMarkedRemoved
         /\ ActiveRows(call.s.disk, call.s.disk.company.id) = {}
    /\ call.client \notin {"jobvite", "personio"} =>
         /\ call.result.status = "fetch_error"
         /\ call.s.disk.jobs = call.before.disk.jobs
         /\ call.s.disk.job_changes = call.before.disk.job_changes

C33_Witness ==
  /\ call.pc = "processed"
  /\ call.client = "jobvite"
  /\ call.status = 200
  /\ ~call.parsable
  /\ ~call.dry
  /\ ActiveRows(call.before.disk, call.before.disk.company.id) # {}
  /\ ActiveRows(call.s.disk, call.s.disk.company.id) = {}
  /\ C33_AllActiveMarkedRemoved

\* C34: when fetch_jobs raised, the company ends with fetch_error and what is
\* stored of it is as before: the job rows (is_active, last_seen_at), the
\* job changes, and the ATS fields of the company row
C34_FetchErrorLeavesJobState ==
  (call.pc = "processed" /\ ~call.fetch_ok) =>
    /\ call.result.status = "fetch_error"
    /\ call.s.disk.jobs = call.before.disk.jobs
    /\ call.s.conn.jobs = call.before.disk.jobs
    /\ call.s.disk.job_changes = call.before.disk.job_changes
    /\ call.s.conn.job_changes = call.before.disk.job_changes
    /\ call.s.disk.company = call.before.disk.company
    /\ call.s.conn.company = call.before.disk.company

C34_Witness ==
  /\ call.pc = "processed"
  /\ ~call.fetch_ok
  /\ ~call.dry
  /\ call.status = 500
  /\ call.result.status = "fetch_error"
  /\ ActiveRows(call.before.disk, call.before.disk.company.id) # {}
  /\ call.before.disk.company.ats_provider = call.client
  /\ call.s.disk.jobs = call.before.disk.jobs

\* C35: when the fetched list names a new external_id twice, apply_changes
\* ends without a constraint error and the company has one job row and one
\* JobChange row "new" for that external_id
C35_DuplicateInsertedOnce ==
  (/\ call.pc = "processed"
   /\ ~call.dry
   /\ call.fetch_ok
   /\ Len(call.jobs) > 1
   /\ call.repeats > 0
   /\ ~\E j \in call.before.disk.jobs : j.external_id = call.jobs[1].external_id) =>
    /\ call.applied = "ok"
    /\ Cardinality({j \in call.s.disk.jobs :
                      j.external_id = call.jobs[1].external_id}) = 1
    /\ Cardinality({i \in 1..Len(call.s.disk.job_changes) :
                      /\ call.s.disk.job_changes[i].change_type = "new"
                      /\ \E j \in call.s.disk.jobs :
                           /\ j.id = call.s.disk.job_changes[i].job_id
                           /\ j.external_id = call.jobs[1].external_id}) = 1

\* C36: after any number of runs of the IT-MSP pipeline no two job rows have
\* the same dedup key, and the key of every job row is in seen_listings
C36_ListingStoredAtMostOnce ==
  call.pc = "msp" =>
    /\ \A i, j \in 1..Len(call.db.jobs) :
         dedup_key(call.db.jobs[i].company_name, call.db.jobs[i].title)
           = dedup_key(call.db.jobs[j].company_name, call.db.jobs[j].title)
         => i = j
    /\ \A i \in 1..Len(call.db.jobs) :
         dedup_key(call.db.jobs[i].company_name, call.db.jobs[i].title)
           \in call.db.seen_listings

\* a second run, not a dry run, that found a listing whose key an earlier run
\* had stored under another spelling, and stored nothing
C36_Witness ==
  /\ call.pc = "msp"
  /\ call.runs = 2
  /\ ~call.dry
  /\ Len(call.db.jobs) = 1
  /\ call.all_listings # <<>>
  /\ call.new_count = 0
  /\ call.all_listings[1].company_name # call.db.jobs[1].company_name
  /\ dedup_key(call.all_listings[1].company_name, call.all_listings[1].title)
       = dedup_key(call.db.jobs[1].company_name, call.db.jobs[1].title)

\* C37: a call of get_next_metros returns count distinct metros, the ones
\* from the index the state file held on; the index it writes is that index
\* plus count modulo the number of metros; and the selections of any
\* ceil(total / count) consecutive calls hold every metro
C37_RotationFair ==
  (call.pc = "metros" /\ call.history # <<>>) =>
    /\ Len(call.selected) = call.count
    /\ \A i, j \in 1..call.count :
         call.selected[i] = call.selected[j] => i = j
    /\ \A i \in 1..call.count :
         call.selected[i] = (call.read + i - 1) % call.total
    /\ call.file.kind = "json"
    /\ call.file.next_index = (call.read + call.count) % call.total
    /\ Len(call.history) = RunsPerRound(call.total, call.count) =>
         \A metro \in 0..(call.total - 1) :
           \E k \in 1..Len(call.history) :
             \E i \in 1..call.count : call.history[k][i] = metro

\* a round of more than one call that wrapped around the end of the list
C37_Witness ==
  /\ call.pc = "metros"
  /\ call.total = 3
  /\ call.count = 2
  /\ Len(call.history) = 2
  /\ call.read = 2
  /\ call.selected = <<2, 0>>
  /\ call.file.next_index = 1

\* the backoff schedule of a loop that was rate limited n times in a row
C38_Backoff == <<2, 4, 8, 16, 32>>

C38_RetryBounded ==
  call.pc \in {"llm", "returned"} =>
    /\ call.calls <= 5
    /\ Len(call.slept) <= 5
    /\ call.slept = SubSeq(C38_Backoff, 1, Len(call.slept))
    /\ call.pc = "llm" => call.calls = Len(call.slept) /\ call.calls < 5
    /\ call.pc = "returned" =>
         /\ call.calls = Len(call.slept) \/ call.calls = Len(call.slept) + 1
         /\ call.calls = Len(call.slept) =>
              call.calls = 5 /\ call.returned = llm_default(call.op)
         /\ (call.calls = Len(call.slept) + 1 /\ call.error_str # NoError) =>
              call.returned = llm_default(call.op)

\* C38: each LLM operation of the cold-email processor makes at most
\* MAX_RETRIES = 5 API calls and always returns: the k-th rate-limited
\* attempt (k from 0) is followed by a sleep of BASE_RETRY_DELAY * 2^k and,
\* while attempts remain, one more call; an error that is not a rate limit
\* returns the default value at once, with no sleep; five rate-limited
\* attempts return the default value.
C38_RetryTerminates == [](C38_RetryBounded) /\ <>(call.pc = "returned")

\* five rate-limited attempts in a row: five calls, the whole backoff
\* schedule slept, the default value returned
C38_Witness ==
  /\ call.pc = "returned"
  /\ call.op = "summarize_page"
  /\ call.calls = 5
  /\ call.slept = <<2, 4, 8, 16, 32>>
  /\ call.returned = "no content"

C39_Count(rows, row) == Cardinality({k \in 1..Len(rows) : rows[k] = row})

\* C39: when the lead tasks of a run append to an output CSV that did not
\* exist before, then under every interleaving of the tasks the finished
\* file is one header row followed by exactly one data row for each lead
\* whose processing returned, and no row for a lead whose processing raised.
C39_OneHeaderOneRowPerLead ==
  (call.pc = "csv_done" /\ ~call.before.exists /\ call.file.exists) =>
    /\ call.file.rows[1] = HeaderRow
    /\ C39_Count(call.file.rows, HeaderRow) = 1
    /\ \A t \in 1..call.leads :
         C39_Count(call.file.rows, t) = IF call.task[t] = "saved" THEN 1 ELSE 0
    /\ \A t \in 1..call.leads : call.task[t] \in {"saved", "raised"}
    /\ Len(call.file.rows) = 1 + Cardinality({t \in 1..call.leads : call.task[t] = "saved"})

\* three leads on a fresh file, the second saved before the first
C39_Witness ==
  /\ call.pc = "csv_done"
  /\ ~call.before.exists
  /\ call.leads = 3
  /\ call.file.rows = <<HeaderRow, 2, 1, 3>>

====
